---- MODULE Spec2Model ----
(***************************************************************************)
(* Verification model of the goals application (scottring/goals-v1).       *)
(*                                                                         *)
(* Three parts of the program are modelled, each with its own              *)
(* specification over its own variables:                                   *)
(*   SpecFreeform  FreeformAIChat + processConversation (lib/openai)       *)
(*   SpecGuided    AIGoalCreation (the 12-step questionnaire)              *)
(*   SpecDetail    GoalDetails / GoalsList / GoalCreationForm against the  *)
(*                 goal document in the store                              *)
(*                                                                         *)
(* JavaScript strings are sequences of one-character strings, so that      *)
(* trim, toLowerCase, split and includes are computed, not assumed.        *)
(* JavaScript values of dynamic type (the extraction JSON) are tagged      *)
(* records [t |-> type, ...].                                              *)
(***************************************************************************)
EXTENDS Integers, Sequences, FiniteSets, TLC

VARIABLES
  \* ---- FreeformAIChat state (useState hooks) and the turn in flight
  ffOpen,        \* the component is mounted (showFreeformChat)
  ffMessages,    \* messages
  ffProcessing,  \* isProcessing
  ffGoalData,    \* goalData (accumulated partial goal)
  ffShowSummary, \* showSummary
  ffShowTranscript, \* showTranscriptInput
  ffTurn,        \* the handleSendMessage invocation awaiting processConversation
  ffCalls,       \* number of completion calls issued so far
  ffLast,        \* what the last finished turn received and returned
  ffEdits,       \* number of manual edits made on the summary screen
  ffEmitted      \* the records handed to addDoc, in order

VARIABLES
  \* ---- AIGoalCreation state and the handlers in flight
  gOpen,         \* the component is mounted (showAICreation)
  gMessages,     \* messages
  gStep,         \* currentStep
  gGoalData,     \* goalData
  gSuggestions,  \* suggestions
  gLoading,      \* loading
  gPending,      \* handleSendMessage invocations awaiting getAIResponse
  gEmitted       \* the records handleCreateGoal handed to addDoc, in order

VARIABLES
  \* ---- the goal document, GoalsList, GoalDetails and the edit form
  dDoc,          \* the goal document in the store
  dView,         \* "list", "details" (selectedGoal) or "form" (editingGoal)
  dGoal,         \* GoalDetails.goal
  dForm,         \* the state of the edit form
  dPending,      \* updateDoc calls awaiting the store
  dLog           \* the finished updateDoc calls with their outcome, in order

VARIABLES
  \* ---- the progress bars of the list, detail and domain views
  pShown         \* per view: the goal it last rendered and the percentage shown

VARIABLES
  \* ---- NotificationBell and the goals collection it polls
  nGoals,          \* the goals collection: goal id -> document
  nWrites,         \* number of writes the collection has taken
  nMounted,        \* the bell is mounted (a user is signed in)
  nNotifications,  \* notifications
  nShow,           \* showNotifications
  nPolls,          \* runs of checkNotifications waiting on getDocs
  nLast            \* the last run that finished: its time, outcome, the ids it replaced

VARIABLES
  \* ---- GoalsList: the creation modals and the manual form in create mode
  cShown,      \* which creation modal the list shows, if any
  cForm,       \* the state of GoalCreationForm
  cPending,    \* addDoc calls of the form that have not answered
  cEmitted     \* the records the form handed to addDoc, in order

VARIABLES
  now            \* the clock read by new Date(), in days since 1970-01-01

ffVars == <<ffOpen, ffMessages, ffProcessing, ffGoalData, ffShowSummary, ffShowTranscript,
            ffTurn, ffCalls, ffLast,
            ffEdits, ffEmitted>>

gVars == <<gOpen, gMessages, gStep, gGoalData, gSuggestions, gLoading, gPending,
           gEmitted>>

dVars == <<dDoc, dView, dGoal, dForm, dPending, dLog>>

pVars == <<pShown>>

nVars == <<nGoals, nWrites, nMounted, nNotifications, nShow, nPolls, nLast>>

cVars == <<cShown, cForm, cPending, cEmitted>>

vars == <<ffVars, gVars, dVars, pVars, nVars, cVars, now>>

-----------------------------------------------------------------------------
(* Strings                                                                 *)

\* String.prototype.trim: white space is the space character here.
IsSpace(c) == c \in {" ", "\n"}

RECURSIVE TrimStart(_)
TrimStart(s) ==
  IF s = <<>> THEN <<>>
  ELSE IF IsSpace(Head(s)) THEN TrimStart(Tail(s)) ELSE s

RECURSIVE TrimEnd(_)
TrimEnd(s) ==
  IF s = <<>> THEN <<>>
  ELSE IF IsSpace(s[Len(s)]) THEN TrimEnd(SubSeq(s, 1, Len(s) - 1)) ELSE s

Trim(s) == TrimEnd(TrimStart(s))

UpperChars ==
  <<"A", "B", "C", "D", "E", "F", "G", "H", "I", "J", "K", "L", "M",
    "N", "O", "P", "Q", "R", "S", "T", "U", "V", "W", "X", "Y", "Z">>
LowerChars ==
  <<"a", "b", "c", "d", "e", "f", "g", "h", "i", "j", "k", "l", "m",
    "n", "o", "p", "q", "r", "s", "t", "u", "v", "w", "x", "y", "z">>

LowerOf(c) ==
  IF \E i \in 1..Len(UpperChars) : UpperChars[i] = c
  THEN LowerChars[CHOOSE i \in 1..Len(UpperChars) : UpperChars[i] = c]
  ELSE c

\* A toLowerCase that leaves capitals as they are.
ToLowerCase_Identity(s) == s

\* String.prototype.toLowerCase
ToLowerCase(s) == [i \in 1..Len(s) |-> LowerOf(s[i])]

\* String.prototype.split with a one-character separator: "".split(",") is
\* [""], "a,".split(",") is ["a", ""].
RECURSIVE SplitFrom(_, _, _)
SplitFrom(s, sep, cur) ==
  IF s = <<>> THEN <<cur>>
  ELSE IF Head(s) = sep THEN <<cur>> \o SplitFrom(Tail(s), sep, <<>>)
  ELSE SplitFrom(Tail(s), sep, Append(cur, Head(s)))

Split(s, sep) == SplitFrom(s, sep, <<>>)

\* String.prototype.includes
Includes(s, sub) ==
  \E i \in 0..(Len(s) - Len(sub)) : SubSeq(s, i + 1, i + Len(sub)) = sub

Digits == <<"0", "1", "2", "3", "4", "5", "6", "7", "8", "9">>
IsDigit(c) == \E i \in 1..10 : Digits[i] = c
DigitVal(c) == (CHOOSE i \in 1..10 : Digits[i] = c) - 1

\* The longest run of digits at the start of s.
RECURSIVE LeadingDigits(_)
LeadingDigits(s) ==
  IF s = <<>> \/ ~IsDigit(Head(s)) THEN <<>>
  ELSE <<Head(s)>> \o LeadingDigits(Tail(s))

RECURSIVE DigitsValue(_)
DigitsValue(ds) ==
  IF ds = <<>> THEN 0
  ELSE 10 * DigitsValue(SubSeq(ds, 1, Len(ds) - 1)) + DigitVal(ds[Len(ds)])

\* s.match(/\d+/)?.[0]: the first run of digits of s, <<>> when there is none.
RECURSIVE FirstDigits(_)
FirstDigits(s) ==
  IF s = <<>> THEN <<>>
  ELSE IF IsDigit(Head(s)) THEN LeadingDigits(s)
  ELSE FirstDigits(Tail(s))

\* parseInt of a string value or undefined: [nan |-> TRUE] or [nan |-> FALSE,
\* n |-> the integer].  Leading white space is skipped, a sign is read, and the
\* digits up to the first other character are taken.
ParseInt(v) ==
  IF v.t # "string" THEN [nan |-> TRUE]
  ELSE LET t == TrimStart(v.s)
           neg == t # <<>> /\ Head(t) = "-"
           u == IF t # <<>> /\ Head(t) \in {"-", "+"} THEN Tail(t) ELSE t
           ds == LeadingDigits(u)
       IN  IF ds = <<>> THEN [nan |-> TRUE]
           ELSE [nan |-> FALSE, n |-> IF neg THEN 0 - DigitsValue(ds) ELSE DigitsValue(ds)]

-----------------------------------------------------------------------------
(* Dates: a Date is the number of days since 1970-01-01 (the time of day    *)
(* plays no part in what is modelled).                                      *)

IsLeap(y) == (y % 4 = 0 /\ y % 100 # 0) \/ y % 400 = 0

\* Days of month m (0 = January) of year y.
DaysInMonth(y, m) ==
  CASE m = 1 -> IF IsLeap(y) THEN 29 ELSE 28
    [] m \in {3, 5, 8, 10} -> 30
    [] OTHER -> 31

\* Days from 1970-01-01 to January 1st of y (y >= 1970).
DaysBeforeYear(y) ==
  365 * (y - 1970) + ((y - 1969) \div 4) - ((y - 1901) \div 100) + ((y - 1601) \div 400)

RECURSIVE DaysBeforeMonth(_, _)
DaysBeforeMonth(y, m) ==
  IF m = 0 THEN 0 ELSE DaysBeforeMonth(y, m - 1) + DaysInMonth(y, m - 1)

\* MakeDay(year, month, date): month may exceed 11 and date the length of the
\* month; both carry over, as Date.prototype.setMonth and setFullYear do.
MakeDay(y, m, d) ==
  LET yy == y + (m \div 12)
      mm == m % 12
  IN  DaysBeforeYear(yy) + DaysBeforeMonth(yy, mm) + (d - 1)

YearOf(t) == CHOOSE y \in 1970..2200 : DaysBeforeYear(y) <= t /\ t < DaysBeforeYear(y + 1)
MonthOf(t) ==
  LET y == YearOf(t)
  IN  CHOOSE m \in 0..11 :
        /\ DaysBeforeYear(y) + DaysBeforeMonth(y, m) <= t
        /\ t < DaysBeforeYear(y) + DaysBeforeMonth(y, m) + DaysInMonth(y, m)
DateOf(t) == t - (DaysBeforeYear(YearOf(t)) + DaysBeforeMonth(YearOf(t), MonthOf(t))) + 1

\* d.setMonth(d.getMonth() + k) and d.setFullYear(d.getFullYear() + k)
AddMonths(t, k) == MakeDay(YearOf(t), MonthOf(t) + k, DateOf(t))
AddYears(t, k) == MakeDay(YearOf(t) + k, MonthOf(t), DateOf(t))

JDate(t) == [t |-> "date", day |-> t]

-----------------------------------------------------------------------------
(* JavaScript values                                                       *)

Undef == [t |-> "undefined"]
JStr(s) == [t |-> "string", s |-> s]
JNum(n) == [t |-> "number", n |-> n]
JArr(a) == [t |-> "array", a |-> a]
\* A non-empty text known by its name (a prompt of the program, a reply of the
\* completion endpoint): nothing in the program looks inside it.
JText(id) == [t |-> "text", id |-> id]

JNull == [t |-> "null"]

\* ToBoolean: undefined, null, "" and 0 are falsy; every array (also []) and
\* every object is truthy.
Truthy(v) ==
  CASE v.t \in {"undefined", "null"} -> FALSE
    [] v.t = "string" -> v.s # <<>>
    [] v.t = "number" -> v.n # 0
    [] OTHER -> TRUE

\* a || b
OrElse(a, b) == IF Truthy(a) THEN a ELSE b

\* Objects are functions from property names to values; a property that is
\* not there reads as undefined.
EmptyObj == [k \in {} |-> Undef]
Get(o, k) == IF k \in DOMAIN o THEN o[k] ELSE Undef

\* { ...a, ...b }
Spread(a, b) ==
  [k \in (DOMAIN a) \cup (DOMAIN b) |-> IF k \in DOMAIN b THEN b[k] ELSE a[k]]

sActive == <<"a", "c", "t", "i", "v", "e">>
sOnce == <<"o", "n", "c", "e">>
sRun5k == <<"R", "u", "n", " ", "5", "k">>
sX == <<"x">>
sHealth == <<"h", "e", "a", "l", "t", "h">>
sAbc == <<"a", "b", "c">>
sDate == <<"2", "0", "2", "4", "-", "1", "2", "-", "3", "1">>

-----------------------------------------------------------------------------
(* lib/openai: processConversation                                         *)

MappedFields == {"milestones", "metrics", "routines"}
PlainFields ==
  {"weeklyActions", "dailyHabits", "resources", "obstacles", "successCriteria"}
CollFields == MappedFields \cup PlainFields
requiredFields == <<"title", "description", "domain">>

\* The text the outer catch of processConversation returns as nextPrompt.
FallbackPrompt == JText("I'm having trouble understanding. Could you rephrase that?")

\* (parsedData.f || []).map(...) throws a TypeError when parsedData.f is
\* truthy and has no map method (a string, a number).
MapThrows(v) == Truthy(v) /\ v.t # "array"

\* One element of a mapped collection.  crypto.randomUUID() is modelled by
\* the pair <<call, i>>: call numbers the invocation of processConversation,
\* i the element within it, so no two elements ever share an id.
MapItem(f, m, id) ==
  CASE f = "milestones" ->
         [id |-> id, title |-> m.title, completed |-> FALSE, frequency |-> sOnce]
    [] f = "metrics" ->
         [id |-> id, name |-> m.name, current |-> 0, history |-> <<>>]
    [] OTHER ->
         [id |-> id, name |-> m.name, lastCompleted |-> "null", nextDue |-> "null"]

MapColl(doc, f, call) ==
  LET v == OrElse(Get(doc, f), JArr(<<>>))
  IN  JArr([i \in 1..Len(v.a) |-> MapItem(f, v.a[i], <<call, f, i>>)])

\* The object literal of lines 149-188.
TransformThrows(doc) == \E f \in MappedFields : MapThrows(Get(doc, f))

Transform(doc, call) ==
  [k \in {"title", "description", "domain", "targetDate", "status", "reflections"}
         \cup CollFields |->
     CASE k \in {"title", "description", "domain"} -> Get(doc, k)
       [] k = "targetDate" ->
            IF Truthy(Get(doc, k)) THEN [t |-> "date", of |-> Get(doc, k)] ELSE Undef
       [] k = "status" -> JStr(sActive)
       [] k = "reflections" -> JArr(<<>>)
       [] k \in MappedFields -> MapColl(doc, k, call)
       [] OTHER -> OrElse(Get(doc, k), JArr(<<>>))]

\* requiredFields.every(field => parsedData[field] && parsedData[field].trim() !== '')
\* every stops at the first field that fails; .trim() on a truthy value that
\* is no string throws.  Result: "true", "false" or "throws".
RECURSIVE RequiredFrom(_, _)
RequiredFrom(doc, i) ==
  IF i > Len(requiredFields) THEN "true"
  ELSE LET v == Get(doc, requiredFields[i])
       IN  IF ~Truthy(v) THEN "false"
           ELSE IF v.t # "string" THEN "throws"
           ELSE IF Trim(v.s) = <<>> THEN "false"
           ELSE RequiredFrom(doc, i + 1)

\* Mutant: the check without .trim(), so that a whitespace-only value passes.
RequiredCheck_NoTrim(doc) ==
  IF \A f \in {"title", "description", "domain"} : Truthy(Get(doc, f))
  THEN "true" ELSE "false"

RequiredCheck(doc) == RequiredFrom(doc, 1)

\* Mutant: the fallback returns a blank goal instead of no data.
FailedResult_BlankGoal ==
  [nextPrompt |-> FallbackPrompt, extractedData |-> Transform(EmptyObj, 0),
   conversationComplete |-> FALSE]

FailedResult ==
  [nextPrompt |-> FallbackPrompt, extractedData |-> EmptyObj,
   conversationComplete |-> FALSE]

\* What processConversation returns once both calls have answered: raw is the
\* extraction call's content, reply the conversational call's content.
ProcessResult(raw, reply, call) ==
  IF raw.json = FALSE \/ TransformThrows(raw.doc)
  THEN [nextPrompt |-> reply, extractedData |-> EmptyObj,
        conversationComplete |-> FALSE]
  ELSE [nextPrompt |-> reply, extractedData |-> Transform(raw.doc, call),
        conversationComplete |-> (RequiredCheck(raw.doc) = "true")]

-----------------------------------------------------------------------------
(* FreeformAIChat                                                          *)

MaxTurns == 2

Greeting == JText("Hi! I'm here to help you create a meaningful goal.")

ffInitialGoalData ==
  [k \in {"status", "reflections"} \cup CollFields |->
     IF k = "status" THEN JStr(sActive) ELSE JArr(<<>>)]

Idle == [pc |-> "idle"]
NoTurn == [kind |-> "none"]

FFInit ==
  /\ ffOpen = TRUE
  /\ ffMessages = <<[role |-> "assistant", content |-> Greeting]>>
  /\ ffProcessing = FALSE
  /\ ffGoalData = ffInitialGoalData
  /\ ffShowSummary = FALSE
  /\ ffShowTranscript = FALSE
  /\ ffTurn = Idle
  /\ ffCalls = 0
  /\ ffLast = NoTurn
  /\ ffEdits = 0
  /\ ffEmitted = <<>>

\* What the user may type into the chat box.
ChatInputs == {<<" ">>, <<"r", "u", "n">>}

\* Contents the conversational call may answer with (message.content is a
\* string or null).
Replies == {JText("reply"), JNull}

\* Elements of the extracted collections.
RawItem(f) == IF f = "milestones" THEN [title |-> sX] ELSE
              IF f \in MappedFields THEN [name |-> sX] ELSE JStr(sX)

\* The JSON objects the extraction call may answer with.  Properties whose
\* value is Undef are left out of the object.
MkDoc(req, td, colls) ==
  LET all == [k \in {"title", "description", "domain", "targetDate"} \cup CollFields |->
                CASE k \in {"title", "description", "domain"} -> req[k]
                  [] k = "targetDate" -> td
                  [] OTHER -> colls[k]]
  IN  [k \in {x \in DOMAIN all : all[x] # Undef} |-> all[k]]

ReqNames == {"title", "description", "domain"}
GoodReq == [title |-> JStr(sRun5k), description |-> JStr(sX), domain |-> JStr(sHealth)]
TitleOnly == [title |-> JStr(sRun5k), description |-> Undef, domain |-> Undef]
NoReq == [f \in ReqNames |-> Undef]
BadReqVals == {Undef, JStr(<<>>), JStr(<<" ">>), JNum(5)}
NoColls == [f \in CollFields |-> Undef]
AllColls == [f \in CollFields |-> JArr(<<RawItem(f)>>)]
CollVals(f) == {JArr(<<>>), JArr(<<RawItem(f)>>), JStr(sAbc)}

\* The three required fields: all good, one of them bad in each way, title and
\* description bad together (the order of the check shows), none there; with
\* and without a target date.
ReqDocs ==
  {MkDoc(GoodReq, td, NoColls) : td \in {Undef, JStr(sDate)}}
    \cup {MkDoc([GoodReq EXCEPT ![f] = v], Undef, NoColls) : f \in ReqNames, v \in BadReqVals}
    \cup {MkDoc([GoodReq EXCEPT !["title"] = v, !["description"] = w], Undef, NoColls) :
            v \in {JStr(<<>>), JNum(5)}, w \in {JStr(<<>>), JNum(5)}}
    \cup {MkDoc(NoReq, Undef, NoColls)}

\* The eight collections: one of them there (empty, with an element, or no
\* array at all) and the others not; all of them there, without and with the
\* required fields.
CollDocs ==
  UNION {{MkDoc(r, Undef, [NoColls EXCEPT ![focus] = c]) :
            r \in {TitleOnly}, c \in CollVals(focus)} : focus \in CollFields}
    \cup {MkDoc(GoodReq, Undef, [NoColls EXCEPT ![focus] = JStr(sAbc)]) :
            focus \in {"milestones", "weeklyActions"}}
    \cup {MkDoc(TitleOnly, Undef, AllColls), MkDoc(GoodReq, Undef, AllColls)}

Docs == ReqDocs \cup CollDocs

NotJson == [json |-> FALSE]
RawExtractions == {NotJson} \cup {[json |-> TRUE, doc |-> d] : d \in Docs}

\* setGoalData(prev => ({...prev, ...extractedData, milestones:
\* extractedData.milestones || prev.milestones, ...}))
MergeExtracted(prev, ext) ==
  LET base == Spread(prev, ext)
  IN  [k \in (DOMAIN base) \cup CollFields |->
         IF k \in CollFields THEN OrElse(Get(ext, k), Get(prev, k)) ELSE base[k]]

\* handleSendMessage up to its await: the first completion call is issued.
FFSend(input) ==
  /\ ffOpen /\ ~ffShowSummary /\ ~ffShowTranscript
  /\ Trim(input) # <<>>
  /\ ~ffProcessing
  /\ ffCalls < 2 * MaxTurns
  /\ ffProcessing' = TRUE
  /\ ffMessages' = Append(ffMessages, [role |-> "user", content |-> JStr(input)])
  /\ ffTurn' = [pc |-> "conversation", handler |-> "send",
                messages |-> Append(ffMessages, [role |-> "user", content |-> JStr(input)])]
  /\ ffCalls' = ffCalls + 1
  /\ ffLast' = NoTurn
  /\ UNCHANGED <<ffOpen, ffGoalData, ffShowSummary, ffShowTranscript>>
  /\ UNCHANGED <<ffEdits, ffEmitted>>

\* handleImportTranscript after its await: the extraction is spread over the
\* accumulated goal and the summary is opened, whatever was returned.
FFImported(result, last) ==
  /\ ffGoalData' = Spread(ffGoalData, result.extractedData)
  /\ ffShowSummary' = TRUE
  /\ ffProcessing' = FALSE
  /\ ffLast' = [kind |-> "imported", outcome |-> last.kind, result |-> result,
                transcript |-> ffTurn.transcript]
  /\ UNCHANGED ffMessages

\* The rest of handleSendMessage, run with what processConversation returned
\* (last records it).  An object, also the empty one, is truthy.
FFSent(result, last) ==
  /\ ffGoalData' = MergeExtracted(ffGoalData, result.extractedData)
  /\ ffMessages' =
       IF Truthy(result.nextPrompt)
       THEN Append(ffMessages, [role |-> "assistant", content |-> result.nextPrompt])
       ELSE ffMessages
  /\ ffShowSummary' = (ffShowSummary \/ result.conversationComplete)
  /\ ffProcessing' = FALSE
  /\ ffLast' = last

\* processConversation has returned to the handler that awaited it.  A
\* component that was closed meanwhile has no state to update.
FFResume(result, last) ==
  /\ ffTurn' = Idle
  /\ IF ~ffOpen
     THEN UNCHANGED <<ffGoalData, ffMessages, ffShowSummary, ffProcessing, ffLast>>
     ELSE IF ffTurn.handler = "import"
     THEN FFImported(result, last)
     ELSE FFSent(result, last)
  /\ UNCHANGED ffShowTranscript

\* The conversational call fails: the outer catch of processConversation.
FFConversationFails ==
  /\ ffTurn.pc = "conversation"
  /\ FFResume(FailedResult, [kind |-> "failed", result |-> FailedResult])
  /\ UNCHANGED <<ffOpen, ffCalls>>
  /\ UNCHANGED <<ffEdits, ffEmitted>>

\* The conversational call answers; the extraction call is issued.
FFConversationReplies(reply) ==
  /\ ffTurn.pc = "conversation"
  /\ ffTurn' = Spread(ffTurn, [pc |-> "extraction", reply |-> reply])
  /\ ffCalls' = ffCalls + 1
  /\ UNCHANGED <<ffOpen, ffMessages, ffProcessing, ffGoalData, ffShowSummary,
                 ffShowTranscript, ffLast>>
  /\ UNCHANGED <<ffEdits, ffEmitted>>

\* The extraction call fails: the outer catch again, the reply is dropped.
FFExtractionFails ==
  /\ ffTurn.pc = "extraction"
  /\ FFResume(FailedResult, [kind |-> "failed", result |-> FailedResult])
  /\ UNCHANGED <<ffOpen, ffCalls>>
  /\ UNCHANGED <<ffEdits, ffEmitted>>

\* The extraction call answers with raw.
FFExtractionReplies(raw) ==
  /\ ffTurn.pc = "extraction"
  /\ LET result == ProcessResult(raw, ffTurn.reply, ffCalls)
     IN  FFResume(result, [kind |-> "answered", raw |-> raw, result |-> result])
  /\ UNCHANGED <<ffOpen, ffCalls>>
  /\ UNCHANGED <<ffEdits, ffEmitted>>

\* handleClose: from the chat with at least one turn to the summary, else
\* onClose() unmounts the component and its state is gone.
FFClose ==
  /\ ffOpen
  /\ IF Len(ffMessages) > 1 /\ ~ffShowSummary
     THEN /\ ffShowSummary' = TRUE
          /\ UNCHANGED <<ffOpen, ffMessages, ffProcessing, ffGoalData, ffShowTranscript,
                         ffLast>>
     ELSE /\ ffOpen' = FALSE
          /\ ffMessages' = <<>>
          /\ ffProcessing' = FALSE
          /\ ffGoalData' = EmptyObj
          /\ ffShowSummary' = FALSE
          /\ ffShowTranscript' = FALSE
          /\ ffLast' = NoTurn
  /\ UNCHANGED <<ffTurn, ffCalls>>
  /\ UNCHANGED <<ffEdits, ffEmitted>>

\* The "Import Transcript" button of the header and the Cancel button of
\* the transcript box.
FFShowTranscriptInput ==
  /\ ffOpen /\ ~ffShowTranscript /\ ~ffShowSummary
  /\ ffShowTranscript' = TRUE
  /\ UNCHANGED <<ffOpen, ffMessages, ffProcessing, ffGoalData, ffShowSummary, ffTurn,
                 ffCalls, ffLast>>
  /\ UNCHANGED <<ffEdits, ffEmitted>>

FFCancelTranscript ==
  /\ ffOpen /\ ffShowTranscript
  /\ ffShowTranscript' = FALSE
  /\ UNCHANGED <<ffOpen, ffMessages, ffProcessing, ffGoalData, ffShowSummary, ffTurn,
                 ffCalls, ffLast>>
  /\ UNCHANGED <<ffEdits, ffEmitted>>

\* What the user may paste into the transcript box: two lines; three lines
\* with a blank line and padding among them; nothing but white space.
Transcripts ==
  {<<"a", "\n", "b">>,
   <<"a", "\n", " ", "\n", " ", "b", " ", "\n", "c">>,
   <<"\n", " ">>}

\* Lines that are trimmed but not filtered.
TranscriptLines_KeepBlank(transcript) ==
  LET lines == Split(transcript, "\n")
  IN  [i \in 1..Len(lines) |-> Trim(lines[i])]

\* transcript.split('\n').map(line => line.trim()).filter(line => line)
TranscriptLines(transcript) ==
  LET lines == Split(transcript, "\n")
      trimmed == [i \in 1..Len(lines) |-> Trim(lines[i])]
  IN  SelectSeq(trimmed, LAMBDA line : line # <<>>)

\* The loop of handleImportTranscript: line i (from 0) is the assistant's
\* when i is even, the user's when it is odd.
TranscriptMessages(lines) ==
  [k \in 1..Len(lines) |->
     [role |-> IF (k - 1) % 2 = 0 THEN "assistant" ELSE "user", content |-> JStr(lines[k])]]

\* handleImportTranscript up to its await of processConversation.
FFImport(transcript) ==
  /\ ffOpen /\ ffShowTranscript
  /\ Trim(transcript) # <<>>
  /\ ~ffProcessing
  /\ ffCalls < 2 * MaxTurns
  /\ ffProcessing' = TRUE
  /\ ffMessages' = TranscriptMessages(TranscriptLines(transcript))
  /\ ffShowTranscript' = FALSE
  /\ ffTurn' = [pc |-> "conversation", handler |-> "import", transcript |-> transcript,
                messages |-> TranscriptMessages(TranscriptLines(transcript))]
  /\ ffCalls' = ffCalls + 1
  /\ ffLast' = NoTurn
  /\ UNCHANGED <<ffOpen, ffGoalData, ffShowSummary>>
  /\ UNCHANGED <<ffEdits, ffEmitted>>

\* GoalsList.handleCreateGoal: the record handed to addDoc.
NewGoal(goalData, t) ==
  [goal |-> goalData, userId |-> "uid", createdAt |-> t, updatedAt |-> t]

MaxEdits == 1

sMine == <<"M", "i", "n", "e">>
sWork == <<"w", "o", "r", "k">>

\* What the user may put into the four inputs of the summary's edit mode.
SummaryEdits ==
  [title |-> {JStr(sMine), JStr(<<>>)},
   description |-> {JStr(sMine)},
   domain |-> {JStr(sWork)},
   targetDate |-> {[t |-> "date", of |-> JStr(sMine)]}]

\* onChange of an input of the summary in edit mode:
\* setGoalData(prev => ({ ...prev, [field]: value })).
FFEdit(field, value) ==
  /\ ffOpen /\ ffShowSummary /\ ~ffShowTranscript
  /\ ffEdits < MaxEdits
  /\ ffGoalData' = Spread(ffGoalData, [f \in {field} |-> value])
  /\ ffEdits' = ffEdits + 1
  /\ UNCHANGED <<ffOpen, ffMessages, ffProcessing, ffShowSummary, ffShowTranscript,
                 ffTurn, ffCalls, ffLast, ffEmitted>>

\* isGoalComplete
isGoalComplete(goalData) ==
  /\ Truthy(Get(goalData, "title"))
  /\ Truthy(Get(goalData, "description"))
  /\ Truthy(Get(goalData, "domain"))

\* One element of a collection handleSaveGoal maps.  crypto.randomUUID()
\* is the triple <<0, f, i>>: processConversation numbers its own from 1.
SaveItem(f, m, i) ==
  CASE f = "milestones" ->
         [id |-> <<0, f, i>>, title |-> m.title, completed |-> FALSE,
          frequency |-> IF "frequency" \in DOMAIN m /\ m.frequency # <<>>
                        THEN m.frequency ELSE sOnce]
    [] f = "metrics" ->
         [id |-> <<0, f, i>>, name |-> m.name, current |-> 0, history |-> <<>>]
    [] OTHER ->
         [id |-> <<0, f, i>>, name |-> m.name, lastCompleted |-> "null", nextDue |-> "null"]

\* A save that hands the accumulated elements on as they are.
SaveColl_KeepIds(goalData, f) ==
  OrElse(Get(goalData, f), JArr(<<>>))

SaveColl(goalData, f) ==
  LET v == OrElse(Get(goalData, f), JArr(<<>>))
  IN  JArr([i \in 1..Len(v.a) |-> SaveItem(f, v.a[i], i)])

sPersonal == <<"p", "e", "r", "s", "o", "n", "a", "l">>

\* The object literal of handleSaveGoal.
SavedGoal(goalData) ==
  [k \in {"title", "description", "domain", "status", "targetDate", "reflections"}
         \cup CollFields |->
     CASE k \in {"title", "description"} -> OrElse(Get(goalData, k), JStr(<<>>))
       [] k = "domain" -> OrElse(Get(goalData, k), JStr(sPersonal))
       [] k = "status" -> JStr(sActive)
       [] k = "targetDate" ->
            IF Truthy(Get(goalData, k)) THEN Get(goalData, k) ELSE Undef
       [] k = "reflections" -> JArr(<<>>)
       [] k \in MappedFields -> SaveColl(goalData, k)
       [] OTHER -> OrElse(Get(goalData, k), JArr(<<>>))]

\* handleSaveGoal, behind the Save button that isGoalComplete enables: the
\* goal goes to GoalsList.handleCreateGoal, which stamps it and calls addDoc;
\* onClose() unmounts the component.  (goalData.f || []).map throws when f is
\* no array: then nothing happens.
FFSave ==
  /\ ffOpen /\ ffShowSummary /\ ~ffShowTranscript
  /\ isGoalComplete(ffGoalData)
  /\ IF \E f \in MappedFields : MapThrows(Get(ffGoalData, f))
     THEN UNCHANGED <<ffOpen, ffMessages, ffProcessing, ffGoalData, ffShowSummary,
                      ffShowTranscript, ffLast, ffEmitted>>
     ELSE /\ ffEmitted' = Append(ffEmitted, NewGoal(SavedGoal(ffGoalData), now))
          /\ ffLast' = [kind |-> "saved", goalData |-> ffGoalData]
          /\ ffOpen' = FALSE
          /\ ffMessages' = <<>>
          /\ ffProcessing' = FALSE
          /\ ffGoalData' = EmptyObj
          /\ ffShowSummary' = FALSE
          /\ ffShowTranscript' = FALSE
  /\ UNCHANGED <<ffTurn, ffCalls, ffEdits>>

FFNext ==
  \/ \E input \in ChatInputs : FFSend(input)
  \/ FFConversationFails
  \/ \E reply \in Replies : FFConversationReplies(reply)
  \/ FFExtractionFails
  \/ \E raw \in RawExtractions : FFExtractionReplies(raw)
  \/ FFClose
  \/ FFShowTranscriptInput
  \/ FFCancelTranscript
  \/ \E transcript \in Transcripts : FFImport(transcript)
  \/ \E field \in DOMAIN SummaryEdits : \E value \in SummaryEdits[field] : FFEdit(field, value)
  \/ FFSave


-----------------------------------------------------------------------------
(* Claims about the freeform flow                                          *)

\* The step in which a turn of the open chat finishes.
FFTurnEnds ==
  ffOpen /\ ffTurn.pc # "idle" /\ ffTurn.handler = "send" /\ ffTurn'.pc = "idle"

\* The extraction answered with JSON that matches the schema: the required
\* fields are strings where present, the collections arrays where present.
WellFormed(doc) ==
  /\ \A f \in ReqNames \cup {"targetDate"} : Get(doc, f).t \in {"undefined", "string"}
  /\ \A f \in CollFields : Get(doc, f).t \in {"undefined", "array"}

ParsedTurn(last) ==
  last.kind = "answered" /\ last.raw.json /\ WellFormed(last.raw.doc)

UnparsedTurn(last) ==
  last.kind = "answered" /\ (~last.raw.json \/ ~WellFormed(last.raw.doc))

NonBlank(v) == v.t = "string" /\ \E i \in 1..Len(v.s) : v.s[i] # " "

AllRequired(doc) == \A f \in ReqNames : NonBlank(Get(doc, f))

\* C1: after a turn whose extraction parsed, each of the eight collection
\* fields holds the returned array when that array is non-empty, and keeps
\* its previously accumulated value when the array is absent or empty.
C1_CollectionsReplaceOnlyWhenNonEmpty ==
  [][(FFTurnEnds /\ ParsedTurn(ffLast')) =>
       \A f \in CollFields :
         LET v == Get(ffLast'.raw.doc, f)
         IN  IF v.t = "array" /\ v.a # <<>>
             THEN ffGoalData'[f] = ffLast'.result.extractedData[f]
             ELSE ffGoalData'[f] = ffGoalData[f]]_vars

\* C2: a turn whose extraction is no JSON, or JSON that does not match the
\* schema, leaves the accumulated record as it was and does not open the
\* summary, and the conversational reply is still appended.
C2_UnparsedTurnChangesNothing ==
  [][(FFTurnEnds /\ UnparsedTurn(ffLast')) =>
       /\ ffGoalData' = ffGoalData
       /\ ffShowSummary' = ffShowSummary
       /\ ~ffLast'.result.conversationComplete
       /\ Truthy(ffTurn.reply) =>
            ffMessages' = Append(ffMessages, [role |-> "assistant", content |-> ffTurn.reply])]_vars

\* C3: when one of the two completion calls of a turn fails, exactly one
\* fallback assistant message is appended, no call is issued again, the
\* accumulated record keeps every value, the summary is not opened by the
\* turn, and the processing flag is cleared.
C3_FailedCallFallsBack ==
  [][(FFTurnEnds /\ ffLast'.kind = "failed") =>
       /\ ffMessages' = Append(ffMessages, [role |-> "assistant", content |-> FallbackPrompt])
       /\ ffCalls' = ffCalls
       /\ ffGoalData' = ffGoalData
       /\ ffShowSummary' = ffShowSummary
       /\ ffProcessing' = FALSE]_vars

\* A failed turn after a turn that had accumulated a title and a milestone.
C3_Witness ==
  /\ ffLast.kind = "failed"
  /\ Get(ffGoalData, "title") = JStr(sRun5k)
  /\ Get(ffGoalData, "milestones").a # <<>>
  /\ ~ffShowSummary /\ ~ffProcessing
  /\ ffMessages[Len(ffMessages)].content = FallbackPrompt

\* C4: a turn (whose extraction parsed) opens the summary exactly when title,
\* description and domain of that extraction are all present and not blank.
C4_CompleteIffRequiredNonBlank ==
  [][(FFTurnEnds /\ ParsedTurn(ffLast')) =>
       /\ ffLast'.result.conversationComplete = AllRequired(ffLast'.raw.doc)
       /\ AllRequired(ffLast'.raw.doc) => ffShowSummary'
       /\ ~AllRequired(ffLast'.raw.doc) => (ffShowSummary' = ffShowSummary)]_vars

\* The summary was opened by a turn whose three required fields are there.
C4_Witness ==
  /\ ffOpen /\ ffShowSummary
  /\ ParsedTurn(ffLast) /\ AllRequired(ffLast.raw.doc)
  /\ ffLast.result.conversationComplete

\* A parsed turn with a whitespace-only domain left the chat open.
C4_WitnessBlank ==
  /\ ffOpen /\ ~ffShowSummary
  /\ ParsedTurn(ffLast)
  /\ Get(ffLast.raw.doc, "domain") = JStr(<<" ">>)
  /\ NonBlank(Get(ffLast.raw.doc, "title")) /\ NonBlank(Get(ffLast.raw.doc, "description"))

\* The step of Next in which handleImportTranscript is invoked.
FFImports ==
  ffTurn.pc = "idle" /\ ffTurn'.pc = "conversation" /\ ffTurn'.handler = "import"

\* The lines of a text by position: where they start, what they hold.
LineStarts(t) == {i \in 1..(Len(t) + 1) : i = 1 \/ t[i - 1] = "\n"}
LineEnd(t, i) == CHOOSE e \in i..(Len(t) + 1) :
                   /\ e = Len(t) + 1 \/ t[e] = "\n"
                   /\ \A j \in i..(e - 1) : t[j] # "\n"
LineAt(t, i) == SubSeq(t, i, LineEnd(t, i) - 1)
NonBlankStarts(t) == {i \in LineStarts(t) : \E j \in 1..Len(LineAt(t, i)) : LineAt(t, i)[j] # " "}

\* C15: importing a transcript of n non-blank lines makes the message
\* history exactly n messages, in line order; counted from 0 over the
\* non-blank lines, the even ones are the assistant's, the odd ones the user's.
C15_ImportAlternates ==
  [][FFImports =>
       LET t == ffTurn'.transcript
       IN  /\ Len(ffMessages') = Cardinality(NonBlankStarts(t))
           /\ \A i \in NonBlankStarts(t) :
                LET k == Cardinality({j \in NonBlankStarts(t) : j < i})
                IN  ffMessages'[k + 1] =
                      [role |-> IF k % 2 = 0 THEN "assistant" ELSE "user",
                       content |-> JStr(Trim(LineAt(t, i)))]]_vars

C15_Witness ==
  /\ ffOpen /\ ffTurn.pc # "idle" /\ ffTurn.handler = "import"
  /\ Cardinality(LineStarts(ffTurn.transcript)) = 4
  /\ Len(ffMessages) = 3
  /\ ffMessages[1] = [role |-> "assistant", content |-> JStr(<<"a">>)]
  /\ ffMessages[2] = [role |-> "user", content |-> JStr(<<"b">>)]
  /\ ffMessages[3] = [role |-> "assistant", content |-> JStr(<<"c">>)]

\* The step of Next in which an import's handler finishes, and whether the
\* extraction call had been issued for it.
FFImportEnds ==
  ffOpen /\ ffTurn.pc # "idle" /\ ffTurn.handler = "import" /\ ffTurn'.pc = "idle"

\* C16: an import issues the extraction call exactly once, for the whole
\* imported batch, and when its handler finishes the summary is shown and
\* the processing flag is cleared, whatever the extraction yielded.
C16_ImportExtractsOnceThenSummary ==
  [][FFImportEnds =>
       /\ ffTurn.pc = "extraction"
       /\ ffTurn.messages = TranscriptMessages(TranscriptLines(ffTurn.transcript))
       /\ ffCalls' = ffCalls
       /\ ffShowSummary' /\ ~ffProcessing']_vars


\* C27: a turn never blanks a required field: if title, description or
\* domain is non-blank when a turn ends, it is non-blank afterwards, also when
\* the parsed extraction of that turn leaves the field out.
C27_RequiredFieldsStayNonBlank ==
  [][FFTurnEnds =>
       \A f \in ReqNames :
         NonBlank(Get(ffGoalData, f)) => NonBlank(Get(ffGoalData', f))]_vars

\* C28: while the summary is shown, the goal record changes only by a manual
\* edit: no other step, such as the end of a turn that was in flight when
\* the summary was opened, changes it.
C28_SummaryChangesOnlyByEdits ==
  [][(ffOpen /\ ffOpen' /\ ffShowSummary /\ ffEdits' = ffEdits) =>
       ffGoalData' = ffGoalData]_vars


-----------------------------------------------------------------------------
(* AIGoalCreation: the guided flow                                         *)

NumSteps == 12
MaxExtra == 1
MaxTicks == 1
SuggestFrom == 11
\* 2024-01-30
Now0 == 19752

DomainTags ==
  {<<"w", "o", "r", "k">>, <<"h", "e", "a", "l", "t", "h">>, <<"f", "i", "n", "a", "n", "c", "i", "a", "l">>, <<"f", "a", "m", "i", "l", "y">>, <<"p", "e", "r", "s", "o", "n", "a", "l">>, <<"c", "o", "m", "m", "u", "n", "i", "t", "y">>, <<"h", "o", "m", "e">>}

AiResponse == JText("aiResponse")
DomainRetry ==
  JText("Please choose one of the following domains: work, health, financial, family, personal, community, or home.")

gInitialGoalData ==
  [status |-> JStr(sActive), domain |-> Undef, title |-> Undef, description |-> Undef,
   targetDate |-> Undef, milestones |-> <<>>, metrics |-> <<>>, weeklyActions |-> <<>>,
   dailyHabits |-> <<>>, routines |-> <<>>, resources |-> <<>>, obstacles |-> <<>>,
   successCriteria |-> <<>>, reflections |-> <<>>]

GInit ==
  /\ gOpen = TRUE
  /\ gMessages = <<[role |-> "assistant", content |-> JText("Hi! I'm here to help you create a meaningful goal.")]>>
  /\ gStep = 1
  /\ gGoalData = gInitialGoalData
  /\ gSuggestions = <<>>
  /\ gLoading = FALSE
  /\ gPending = {}
  /\ gEmitted = <<>>

\* What the user may answer at each step (besides a blank answer).
StepInputs(step) ==
  CASE step = 1 -> {<<"H", "e", "a", "l", "t", "h">>, <<"h", "o", "m", "e">>, <<" ", "h", "e", "a", "l", "t", "h">>, <<"g", "y", "m">>}
    [] step = 2 -> {<<"R", "u", "n", " ", "5", "k">>}
    [] step = 3 -> {<<"x">>}
    [] step = 4 -> {<<"2", " ", "M", "o", "n", "t", "h", "s">>, <<"n", "e", "x", "t", " ", "m", "o", "n", "t", "h">>,
                    <<"2", " ", "y", "e", "a", "r", "s">>, <<"a", " ", "y", "e", "a", "r">>, <<"s", "o", "o", "n">>}
    [] step = 6 -> {<<"k", "m", ":", "5", ",", " ", "m", ",", "z", ":", "0", " ", ",", "q", ":", "x">>}
    [] step = 12 -> {<<"w", "i", "n", ",", " ", "p", "l", "a", "c", "e", " ">>}
    [] step \in {5, 7, 9} -> {<<"a", ",", " ", "b">>}
    [] OTHER -> {<<"a">>}

BlankInput == <<" ">>

UserCount(msgs) == Cardinality({i \in 1..Len(msgs) : msgs[i].role = "user"})

\* input.split(',').map(x => x.trim())
SplitTrim(input) ==
  LET parts == Split(input, ",")
  IN  [i \in 1..Len(parts) |-> Trim(parts[i])]

\* metric.split(':').map(s => s.trim())
SplitTrimColon(part) ==
  LET fs == Split(part, ":")
  IN  [i \in 1..Len(fs) |-> Trim(fs[i])]

\* Step 4: the target date for an answer given at time t.
\* A step 4 that adds three months whatever the answer.
TargetDateFor_AlwaysThreeMonths(input, t) == AddMonths(t, 3)

TargetDateFor(input, t) ==
  LET lower == ToLowerCase(input)
      ds == FirstDigits(lower)
  IN  IF Includes(lower, <<"m", "o", "n", "t", "h">>)
      THEN AddMonths(t, IF ds = <<>> THEN 3 ELSE DigitsValue(ds))
      ELSE IF Includes(lower, <<"y", "e", "a", "r">>)
      THEN AddYears(t, IF ds = <<>> THEN 1 ELSE DigitsValue(ds))
      ELSE AddMonths(t, 3)

\* Step 5: new Date(goalData.targetDate.getTime() * 0.5); the Date constructor
\* drops the fraction.
MilestoneDate(target) == target.day \div 2

MilestonesFor(p) ==
  LET titles == SplitTrim(p.input)
  IN  [i \in 1..Len(titles) |->
         [id |-> <<p.n, i>>, title |-> titles[i], description |-> <<>>,
          targetDate |-> JDate(MilestoneDate(p.goalData.targetDate)),
          completed |-> FALSE, frequency |-> sOnce]]

\* Step 6: "name:target" pairs; parseInt(targetStr) || 100.
MetricTarget(targetStr) ==
  LET r == ParseInt(targetStr)
  IN  IF r.nan \/ r.n = 0 THEN 100 ELSE r.n

MetricsFor(p) ==
  LET parts == Split(p.input, ",")
  IN  [i \in 1..Len(parts) |->
         LET fields == SplitTrimColon(parts[i])
         IN  [id |-> <<p.n, i>>, name |-> fields[1], type |-> "number",
              target |-> MetricTarget(IF Len(fields) > 1 THEN JStr(fields[2]) ELSE Undef),
              current |-> 0, unit |-> <<>>, frequency |-> "daily", history |-> <<>>]]

\* Step 9: one routine named after the title the handler saw.
RoutineFor(p) ==
  [id |-> <<p.n, 1>>, name |-> <<p.goalData.title, " Routine">>,
   description |-> "Daily routine to support goal progress", frequency |-> "daily",
   steps |-> SplitTrim(p.input), lastCompleted |-> "null", nextDue |-> "null"]

\* handleSendMessage up to its await of getAIResponse.
GSend(input) ==
  /\ gOpen
  /\ Trim(input) # <<>>
  /\ UserCount(gMessages) < gStep + MaxExtra
  /\ gMessages' = Append(gMessages, [role |-> "user", content |-> JStr(input)])
  /\ gSuggestions' = <<>>
  /\ gPending' = gPending \cup
       {[n |-> UserCount(gMessages) + 1, input |-> input, step |-> gStep,
         goalData |-> gGoalData]}
  /\ UNCHANGED <<gOpen, gStep, gGoalData, gLoading, gEmitted>>

\* The state updates of an accepted answer: setGoalData(prev => ...),
\* setMessages(prev => [...prev, aiResponse]), setCurrentStep(next).  A
\* component that was closed meanwhile has no state to update.
GAccept(field, value, next) ==
  /\ IF gOpen
     THEN /\ gGoalData' = [gGoalData EXCEPT ![field] = value]
          /\ gMessages' = Append(gMessages, [role |-> "assistant", content |-> AiResponse])
          /\ gStep' = next
     ELSE UNCHANGED <<gGoalData, gMessages, gStep>>
  /\ UNCHANGED <<gOpen, gEmitted>>

\* A rejection that moves on to the title question all the same.
GReject_Advances(text) ==
  /\ gMessages' = IF gOpen
                  THEN Append(gMessages, [role |-> "assistant", content |-> text])
                  ELSE gMessages
  /\ gStep' = IF gOpen THEN 2 ELSE gStep
  /\ UNCHANGED <<gOpen, gGoalData, gEmitted>>

GReject(text) ==
  /\ gMessages' = IF gOpen
                  THEN Append(gMessages, [role |-> "assistant", content |-> text])
                  ELSE gMessages
  /\ UNCHANGED <<gOpen, gGoalData, gStep, gEmitted>>

\* What is left of a component after onClose(): no state.
GUnmounted ==
  /\ gOpen' = FALSE
  /\ gMessages' = <<>>
  /\ gStep' = 1
  /\ gGoalData' = gInitialGoalData
  /\ gSuggestions' = <<>>
  /\ gLoading' = FALSE

\* Case 12: finalGoal is the goalData the handler saw when it was invoked.
GFinish(p) ==
  /\ gEmitted' = Append(gEmitted, NewGoal(p.goalData, now))
  /\ GUnmounted

\* handleSendMessage after getAIResponse has returned (it always returns a
\* text): the switch on the currentStep the handler saw.
GResume(p) ==
  /\ p \in gPending
  /\ gPending' = gPending \ {p}
  /\ CASE p.step = 1 ->
            IF ToLowerCase(p.input) \in DomainTags
            THEN GAccept("domain", JStr(ToLowerCase(p.input)), 2)
            ELSE GReject(DomainRetry)
       [] p.step = 2 -> GAccept("title", JStr(p.input), 3)
       [] p.step = 3 -> GAccept("description", JStr(p.input), 4)
       [] p.step = 4 -> GAccept("targetDate", JDate(TargetDateFor(p.input, now)), 5)
       [] p.step = 5 ->
            IF p.goalData.targetDate = Undef
            THEN UNCHANGED <<gOpen, gGoalData, gMessages, gStep, gEmitted>>
            ELSE GAccept("milestones", MilestonesFor(p), 6)
       [] p.step = 6 -> GAccept("metrics", MetricsFor(p), 7)
       [] p.step = 7 -> GAccept("weeklyActions", SplitTrim(p.input), 8)
       [] p.step = 8 -> GAccept("dailyHabits", SplitTrim(p.input), 9)
       [] p.step = 9 -> GAccept("routines", <<RoutineFor(p)>>, 10)
       [] p.step = 10 -> GAccept("resources", SplitTrim(p.input), 11)
       [] p.step = 11 -> GAccept("obstacles", SplitTrim(p.input), 12)
       [] OTHER -> GFinish(p)
  /\ IF p.step = 12 THEN TRUE ELSE UNCHANGED <<gSuggestions, gLoading>>

\* handleGetSuggestions up to its await.
GSuggest ==
  /\ gOpen /\ ~gLoading
  /\ gStep >= SuggestFrom
  /\ gLoading' = TRUE
  /\ UNCHANGED <<gOpen, gMessages, gStep, gGoalData, gSuggestions, gPending, gEmitted>>

\* generateSuggestion returns three candidates, or its one-line apology.
SuggestionResults ==
  {<<JText("s1"), JText("s2"), JText("s3")>>,
   <<JText("Could not generate suggestions at this time")>>}

\* A suggestion that is taken as the answer: the flow moves on.
GSuggestDone_Advances(result) ==
  /\ gOpen /\ gLoading
  /\ gSuggestions' = result
  /\ gLoading' = FALSE
  /\ gStep' = IF gStep < NumSteps THEN gStep + 1 ELSE gStep
  /\ UNCHANGED <<gOpen, gMessages, gGoalData, gPending, gEmitted>>

GSuggestDone(result) ==
  /\ gOpen /\ gLoading
  /\ gSuggestions' = result
  /\ gLoading' = FALSE
  /\ UNCHANGED <<gOpen, gMessages, gStep, gGoalData, gPending, gEmitted>>

\* The X button: onClose.
GClose ==
  /\ gOpen
  /\ GUnmounted
  /\ UNCHANGED <<gPending, gEmitted>>

Tick ==
  /\ now < Now0 + MaxTicks
  /\ now' = now + 1

GNext ==
  \/ \E input \in StepInputs(gStep) \cup {BlankInput} : GSend(input)
  \/ \E p \in gPending : GResume(p)
  \/ GSuggest
  \/ \E result \in SuggestionResults : GSuggestDone(result)
  \/ GClose

-----------------------------------------------------------------------------
(* Guided flow: properties                                                 *)

\* The step of Next that resumes the handler p after its await.
GResumes(p) == p \in gPending /\ gPending' = gPending \ {p}

AssistantSays(text) ==
  gMessages' = Append(gMessages, [role |-> "assistant", content |-> text])

\* C5: submitting a non-blank answer at step 12 emits one goal record whose
\* success criteria are the comma-split, trimmed answer (with the fields
\* accumulated from the earlier answers), and then ends the flow.
C5_FinalGoalHoldsSuccessCriteria ==
  [][\A p \in gPending :
       (GResumes(p) /\ p.step = NumSteps) =>
         /\ Len(gEmitted') = Len(gEmitted) + 1
         /\ LET goal == gEmitted'[Len(gEmitted')].goal
            IN  /\ goal.successCriteria = SplitTrim(p.input)
                /\ \A f \in DOMAIN goal \ {"successCriteria"} : goal[f] = p.goalData[f]
         /\ ~gOpen']_vars

\* Two strings are equal up to the case of their letters.
EqIgnoreCase(a, b) ==
  /\ Len(a) = Len(b)
  /\ \A i \in 1..Len(a) :
       \/ a[i] = b[i]
       \/ \E k \in 1..Len(UpperChars) : {a[i], b[i]} = {UpperChars[k], LowerChars[k]}

\* C10: when the handler of a step-1 answer that equals one of the seven
\* domain tags up to letter case completes, the step index becomes 2 (from 1,
\* one step forward), the domain of the accumulated goal is the lowercased
\* tag, nothing else of the goal changes, and the handler is spent.
C10_DomainAnswerAdvances ==
  [][\A p \in gPending : \A tag \in DomainTags :
       (GResumes(p) /\ gOpen /\ p.step = 1 /\ EqIgnoreCase(p.input, tag)) =>
         /\ gStep' = 2
         /\ gStep = 1 => gStep' = gStep + 1
         /\ gGoalData' = [gGoalData EXCEPT !.domain = JStr(tag)]
         /\ AssistantSays(AiResponse)
         /\ p \notin gPending']_vars

C10_Witness ==
  /\ gOpen /\ gStep = 2 /\ gPending = {}
  /\ Len(gMessages) = 3
  /\ gMessages[2] = [role |-> "user", content |-> JStr(<<"H", "e", "a", "l", "t", "h">>)]
  /\ gGoalData.domain = JStr(sHealth)

\* C11: when the handler of a non-blank step-1 answer that equals none of
\* the seven domain tags (up to letter case) completes, the step index and
\* the accumulated goal are unchanged and the corrective message that asks
\* for the domain again is appended.
C11_OtherAnswerIsAskedAgain ==
  [][\A p \in gPending :
       (/\ GResumes(p) /\ gOpen /\ p.step = 1
        /\ Trim(p.input) # <<>>
        /\ \A tag \in DomainTags : ~EqIgnoreCase(p.input, tag)) =>
         /\ gStep' = gStep
         /\ gStep = 1 => gStep' = 1
         /\ gGoalData' = gGoalData
         /\ AssistantSays(DomainRetry)
         /\ gEmitted' = gEmitted]_vars

C11_Witness ==
  /\ gOpen /\ gStep = 1 /\ gPending = {}
  /\ Len(gMessages) = 3
  /\ gMessages[2] = [role |-> "user", content |-> JStr(<<" ", "h", "e", "a", "l", "t", "h">>)]
  /\ gMessages[3] = [role |-> "assistant", content |-> DomainRetry]
  /\ gGoalData = gInitialGoalData


\* C12: every milestone created at step 5 has as target date the midpoint
\* N + (T - N) / 2 between the time N of the step-5 submission and the goal
\* target date T set at step 4 (to the day).
C12_MilestoneAtMidpoint ==
  [][\A p \in gPending :
       (GResumes(p) /\ gOpen /\ p.step = 5 /\ p.goalData.targetDate # Undef) =>
         \A i \in 1..Len(gGoalData'.milestones) :
           \E N \in Now0..now :
             LET T == p.goalData.targetDate.day
                 d == gGoalData'.milestones[i].targetDate.day
             IN  2 * (d - N) \in {T - N - 1, T - N, T - N + 1}]_vars


\* C13: at step 6 each comma-separated segment yields one metric, named by
\* the trimmed text before ':' and with the integer parsed from the text
\* after ':' as its target; the target is 100 only when that text is missing
\* or does not parse (a parsed 0 is kept).
C13_MetricPerSegment ==
  [][\A p \in gPending :
       (GResumes(p) /\ gOpen /\ p.step = 6) =>
         LET segs == Split(p.input, ",")
             made == gGoalData'.metrics
         IN  /\ Len(made) = Len(segs)
             /\ \A i \in 1..Len(segs) :
                  LET parts == Split(segs[i], ":")
                      parsed == IF Len(parts) > 1 THEN ParseInt(JStr(parts[2]))
                                ELSE [nan |-> TRUE]
                  IN  /\ made[i].name = Trim(parts[1])
                      /\ made[i].target = IF parsed.nan THEN 100 ELSE parsed.n]_vars


\* The word w occurs in s, letter case disregarded.
ContainsIgnoreCase(s, w) ==
  \E i \in 1..(Len(s) - Len(w) + 1) :
    \A k \in 1..Len(w) : EqIgnoreCase(<<s[i + k - 1]>>, <<w[k]>>)

HasInteger(s) == \E i \in 1..Len(s) : IsDigit(s[i])

\* The value of the first integer written in s (s has a digit).
FirstInteger(s) ==
  LET i == CHOOSE a \in 1..Len(s) : IsDigit(s[a]) /\ \A b \in 1..(a - 1) : ~IsDigit(s[b])
      j == CHOOSE b \in i..Len(s) :
             /\ \A c \in i..b : IsDigit(s[c])
             /\ b = Len(s) \/ ~IsDigit(s[b + 1])
  IN  DigitsValue(SubSeq(s, i, j))

\* C14: the target date set at step 4 is the current date plus k months
\* when the answer contains "month" (k the first integer of the answer, 3
\* if it has none), otherwise plus k years when it contains "year" (k the
\* first integer, 1 if none), otherwise plus 3 months.
C14_TargetDateFromAnswer ==
  [][\A p \in gPending :
       (GResumes(p) /\ gOpen /\ p.step = 4) =>
         LET a == p.input
             T == gGoalData'.targetDate
         IN  /\ T.t = "date"
             /\ IF ContainsIgnoreCase(a, <<"m", "o", "n", "t", "h">>)
                THEN T.day = AddMonths(now, IF HasInteger(a) THEN FirstInteger(a) ELSE 3)
                ELSE IF ContainsIgnoreCase(a, <<"y", "e", "a", "r">>)
                THEN T.day = AddYears(now, IF HasInteger(a) THEN FirstInteger(a) ELSE 1)
                ELSE T.day = AddMonths(now, 3)
             /\ gStep' = 5]_vars

C14_Witness ==
  /\ gOpen /\ gStep = 5 /\ gPending = {} /\ now = Now0
  /\ Len(gMessages) = 9
  /\ gMessages[8] = [role |-> "user", content |-> JStr(<<"2", " ", "y", "e", "a", "r", "s">>)]
  /\ gGoalData.targetDate = JDate(MakeDay(2026, 0, 30))


\* A step of handleGetSuggestions: its start, or its end after
\* generateSuggestion has returned.
SuggestStep == gOpen /\ gOpen' /\ gLoading' # gLoading

SuggestionApology == <<JText("Could not generate suggestions at this time")>>

\* C21: a step of the suggest action, whether the completion call gave
\* candidates or failed, changes only the suggestions shown and the loading
\* flag: step, goal record, transcript, pending answers and emitted goals stay.
C21_SuggestChangesOnlySuggestions ==
  [][SuggestStep =>
       /\ gStep' = gStep
       /\ gGoalData' = gGoalData
       /\ gMessages' = gMessages
       /\ gPending' = gPending
       /\ gEmitted' = gEmitted]_vars

\* The suggest action has ended on a failed completion call, with an answer
\* of the user still being handled.
C21_Witness ==
  /\ gOpen /\ ~gLoading
  /\ gSuggestions = SuggestionApology
  /\ gPending # {}


\* C23: one run of the guided flow hands at most one goal to addDoc.
C23_AtMostOneGoalEmitted == Len(gEmitted) <= 1


\* The fields of the steps before the current one are set.
EarlierFieldsSet ==
  /\ gStep >= 2 => (gGoalData.domain.t = "string" /\ gGoalData.domain.s \in DomainTags)
  /\ gStep >= 3 => gGoalData.title # Undef
  /\ gStep >= 4 => gGoalData.description # Undef
  /\ gStep >= 5 => gGoalData.targetDate # Undef

\* C29: while the guided flow is open the step index is in 1..12 and the
\* fields of all earlier steps are set; no step of the flow moves the index
\* backwards or by more than one.
C29_StepsInOrderWithFieldsSet ==
  /\ [](gOpen => (gStep \in 1..NumSteps /\ EarlierFieldsSet))
  /\ [][(gOpen /\ gOpen') => gStep' \in {gStep, gStep + 1}]_vars


-----------------------------------------------------------------------------
(* The goal document, GoalDetails, GoalsList and the edit form             *)

MaxOps == 2

Statuses == {"active", "completed", "paused"}
MetricValues == {2}

NoGoal == [t |-> "null"]
NoForm == [t |-> "null"]

\* The goal the views work on: two milestones, one of them completed, and
\* two metrics, one of them with a recorded sample.
InitialDoc ==
  [title |-> "t0", status |-> "active", updatedAt |-> Now0,
   milestones |->
     <<[id |-> <<"m", 0, 1>>, title |-> "a", completed |-> FALSE, completedDate |-> Undef],
       [id |-> <<"m", 0, 2>>, title |-> "b", completed |-> TRUE, completedDate |-> JDate(Now0)]>>,
   metrics |->
     <<[id |-> <<"k", 0, 1>>, name |-> "km", current |-> 1,
        history |-> <<[date |-> Now0, value |-> 1]>>],
       [id |-> <<"k", 0, 2>>, name |-> "kg", current |-> 0, history |-> <<>>]>>,
   reflections |-> <<>>]

DInit ==
  /\ dDoc = InitialDoc
  /\ dView = "list"
  /\ dGoal = NoGoal
  /\ dForm = NoForm
  /\ dPending = {}
  /\ dLog = <<>>

Issued == Len(dLog) + Cardinality(dPending)

\* updateDoc: the fields of the payload replace those of the document, the
\* other fields stay.
UpdateDoc(doc, payload) == Spread(doc, payload)

\* goal.milestones.map(m => m.id === milestoneId ? {...m, completed, completedDate} : m)
UpdatedMilestones(milestones, milestoneId, completed, t) ==
  [i \in 1..Len(milestones) |->
     IF milestones[i].id = milestoneId
     THEN [milestones[i] EXCEPT !.completed = completed,
                                !.completedDate = IF completed THEN JDate(t) ELSE Undef]
     ELSE milestones[i]]

\* A metric update that forgets the samples recorded before.
UpdatedMetrics_FreshHistory(metrics, metricId, value, t) ==
  [i \in 1..Len(metrics) |->
     IF metrics[i].id = metricId
     THEN [metrics[i] EXCEPT !.current = value,
                             !.history = <<[date |-> t, value |-> value]>>]
     ELSE metrics[i]]

\* goal.metrics.map(m => m.id === metricId ? {...m, current, history: [...]} : m)
UpdatedMetrics(metrics, metricId, value, t) ==
  [i \in 1..Len(metrics) |->
     IF metrics[i].id = metricId
     THEN [metrics[i] EXCEPT !.current = value,
                             !.history = Append(@, [date |-> t, value |-> value])]
     ELSE metrics[i]]

\* A write issued by a handler of GoalDetails: what it sends, and the goal
\* its closure holds for the setGoal that follows the await.
DetailWrite(kind, arg, fields) ==
  [seq |-> Issued + 1, done |-> Len(dLog), kind |-> kind, arg |-> arg, at |-> now,
   payload |-> Spread(fields, [updatedAt |-> now]),
   local |-> fields, goal |-> dGoal, alive |-> TRUE]

\* A status write that sends the whole goal of its closure.
StatusWrite_WholeGoal(status) ==
  [seq |-> Issued + 1, done |-> Len(dLog), kind |-> "status", arg |-> <<status>>, at |-> now,
   payload |-> Spread(dGoal, [status |-> status, updatedAt |-> now]),
   local |-> [status |-> status], goal |-> dGoal, alive |-> TRUE]

StatusWrite(status) == DetailWrite("status", <<status>>, [status |-> status])

DIssue(w) ==
  /\ dView = "details" /\ dGoal # NoGoal
  /\ Issued < MaxOps
  /\ dPending' = dPending \cup {w}
  /\ UNCHANGED <<dDoc, dView, dGoal, dForm, dLog>>

updateGoalStatus(status) == DIssue(StatusWrite(status))

\* The milestone row calls toggleMilestone(milestone.id, !milestone.completed).
toggleMilestone(i) ==
  /\ dGoal # NoGoal /\ i \in 1..Len(dGoal.milestones)
  /\ LET m == dGoal.milestones[i]
     IN  DIssue(DetailWrite("toggle", <<m.id, ~m.completed>>,
           [milestones |-> UpdatedMilestones(dGoal.milestones, m.id, ~m.completed, now)]))

updateMetric(i, value) ==
  /\ dGoal # NoGoal /\ i \in 1..Len(dGoal.metrics)
  /\ LET m == dGoal.metrics[i]
     IN  DIssue(DetailWrite("metric", <<m.id, value>>,
           [metrics |-> UpdatedMetrics(dGoal.metrics, m.id, value, now)]))

addReflection ==
  /\ dGoal # NoGoal
  /\ DIssue(DetailWrite("reflection", <<>>,
       [reflections |-> Append(dGoal.reflections,
          [id |-> <<"r", Issued + 1>>, userId |-> "uid", date |-> now])]))

Finished(w, ok) == Append(dLog, [w |-> w, ok |-> ok])

\* The handlers of GoalDetails after their await.
DetailWriteLands(w) ==
  /\ w \in dPending /\ w.kind # "edit"
  /\ dPending' = dPending \ {w}
  /\ dDoc' = UpdateDoc(dDoc, w.payload)
  /\ dGoal' = IF w.alive THEN Spread(w.goal, w.local) ELSE dGoal
  /\ dLog' = Finished(w, TRUE)
  /\ UNCHANGED <<dView, dForm>>

\* A detail handler that shows the change although the write failed.
DetailWriteFails_SetsGoal(w) ==
  /\ w \in dPending /\ w.kind # "edit"
  /\ dPending' = dPending \ {w}
  /\ dGoal' = IF w.alive THEN Spread(w.goal, w.local) ELSE dGoal
  /\ dLog' = Finished(w, FALSE)
  /\ UNCHANGED <<dDoc, dView, dForm>>

DetailWriteFails(w) ==
  /\ w \in dPending /\ w.kind # "edit"
  /\ dPending' = dPending \ {w}
  /\ dLog' = Finished(w, FALSE)
  /\ UNCHANGED <<dDoc, dView, dGoal, dForm>>

\* Clicking the goal card mounts GoalDetails, which starts fetchGoal.
DSelectGoal ==
  /\ dView = "list"
  /\ dView' = "details"
  /\ dGoal' = NoGoal
  /\ UNCHANGED <<dDoc, dForm, dPending, dLog>>

fetchGoal ==
  /\ dView = "details" /\ dGoal = NoGoal
  /\ dGoal' = dDoc
  /\ UNCHANGED <<dDoc, dView, dForm, dPending, dLog>>

\* The handlers of an unmounted GoalDetails have no state left to set.
Detached == {[w EXCEPT !.alive = (w.kind = "edit")] : w \in dPending}

DCloseDetails ==
  /\ dView = "details"
  /\ dView' = "list"
  /\ dGoal' = NoGoal
  /\ dPending' = Detached
  /\ UNCHANGED <<dDoc, dForm, dLog>>

\* GoalCreationForm's initial state for initialData = goal.
FormFor(goal) ==
  [title |-> goal.title,
   milestones |-> [i \in 1..Len(goal.milestones) |-> [title |-> goal.milestones[i].title]],
   metrics |-> [i \in 1..Len(goal.metrics) |->
                  [name |-> goal.metrics[i].name, current |-> goal.metrics[i].current]]]

\* GoalDetails' onEdit: setEditingGoal(goals.find(...)); setSelectedGoal(null).
\* GoalsList.goals is the stored document: the onSnapshot listener has
\* delivered a landed write by the time its updateDoc promise resolves.
DOnEdit ==
  /\ dView = "details" /\ dGoal # NoGoal
  /\ dView' = "form"
  /\ dForm' = FormFor(dDoc)
  /\ dGoal' = NoGoal
  /\ dPending' = Detached
  /\ UNCHANGED <<dDoc, dLog>>

\* The card menu's "Edit Goal".
DMenuEdit ==
  /\ dView = "list"
  /\ dView' = "form"
  /\ dForm' = FormFor(dDoc)
  /\ UNCHANGED <<dDoc, dGoal, dPending, dLog>>

FormTitles == {"t0", "t1"}

DFormSetTitle(title) ==
  /\ dView = "form" /\ dForm.title # title
  /\ dForm' = [dForm EXCEPT !.title = title]
  /\ UNCHANGED <<dDoc, dView, dGoal, dPending, dLog>>

RemoveAt(seq, i) == [j \in 1..(Len(seq) - 1) |-> IF j < i THEN seq[j] ELSE seq[j + 1]]

removeMilestone(i) ==
  /\ dView = "form" /\ i \in 1..Len(dForm.milestones)
  /\ dForm' = [dForm EXCEPT !.milestones = RemoveAt(@, i)]
  /\ UNCHANGED <<dDoc, dView, dGoal, dPending, dLog>>

\* GoalCreationForm.handleSubmit: the goalData it builds from the form.
FormGoalData(form, seq) ==
  [title |-> form.title, status |-> "active",
   milestones |-> [i \in 1..Len(form.milestones) |->
                     [id |-> <<"m", seq, i>>, title |-> form.milestones[i].title,
                      completed |-> FALSE, completedDate |-> Undef]],
   metrics |-> [i \in 1..Len(form.metrics) |->
                  [id |-> <<"k", seq, i>>, name |-> form.metrics[i].name,
                   current |-> form.metrics[i].current, history |-> <<>>]]]

\* handleSubmit in edit mode, through handleEditGoal up to its await.
handleSubmit ==
  /\ dView = "form"
  /\ Issued < MaxOps
  /\ dPending' = dPending \cup
       {[seq |-> Issued + 1, done |-> Len(dLog), kind |-> "edit", arg |-> <<>>,
         at |-> now,
         payload |-> Spread(FormGoalData(dForm, Issued + 1), [updatedAt |-> now]),
         local |-> EmptyObj, goal |-> NoGoal, alive |-> TRUE]}
  /\ UNCHANGED <<dDoc, dView, dGoal, dForm, dLog>>

\* handleEditGoal after its await, then handleSubmit's onClose(): both set
\* editingGoal to null, whether the write landed or failed.
FormCloses ==
  /\ dView' = IF dView = "form" THEN "list" ELSE dView
  /\ dForm' = IF dView = "form" THEN NoForm ELSE dForm

handleEditGoalLands(w) ==
  /\ w \in dPending /\ w.kind = "edit"
  /\ dPending' = dPending \ {w}
  /\ dDoc' = UpdateDoc(dDoc, w.payload)
  /\ dLog' = Finished(w, TRUE)
  /\ FormCloses
  /\ UNCHANGED <<dGoal>>

handleEditGoalFails(w) ==
  /\ w \in dPending /\ w.kind = "edit"
  /\ dPending' = dPending \ {w}
  /\ dLog' = Finished(w, FALSE)
  /\ FormCloses
  /\ UNCHANGED <<dDoc, dGoal>>

\* The form's X button.
DFormClose ==
  /\ dView = "form"
  /\ dView' = "list"
  /\ dForm' = NoForm
  /\ UNCHANGED <<dDoc, dGoal, dPending, dLog>>

DNext ==
  \/ \E status \in Statuses : updateGoalStatus(status)
  \/ \E i \in 1..2 : toggleMilestone(i)
  \/ \E i \in 1..2 : \E value \in MetricValues : updateMetric(i, value)
  \/ addReflection
  \/ \E w \in dPending : DetailWriteLands(w)
  \/ \E w \in dPending : DetailWriteFails(w)
  \/ DSelectGoal
  \/ fetchGoal
  \/ DCloseDetails
  \/ DOnEdit
  \/ DMenuEdit
  \/ \E title \in FormTitles : DFormSetTitle(title)
  \/ \E i \in 1..2 : removeMilestone(i)
  \/ handleSubmit
  \/ \E w \in dPending : handleEditGoalLands(w)
  \/ \E w \in dPending : handleEditGoalFails(w)
  \/ DFormClose

-----------------------------------------------------------------------------
(* Goal detail view and store: properties                                  *)

\* The step of Next in which the write w comes back from the store.
Landed(w) == w \in dPending /\ dLog' = Append(dLog, [w |-> w, ok |-> TRUE])
Failed(w) == w \in dPending /\ dLog' = Append(dLog, [w |-> w, ok |-> FALSE])

\* The step of Next in which a handler of the mounted detail view sends a write.
DetailIssues == \E w \in dPending' \ dPending : w.kind # "edit" /\ w.alive

Shows(goal, w) == \A f \in DOMAIN w.local : goal[f] = w.local[f]

\* C6 (as stated): the local goal of the detail view shows every mutation
\* of the view as soon as it is issued, before the store has answered.
C6_LocalUpdateIsImmediate ==
  \A w \in dPending : (w.kind # "edit" /\ w.alive) => Shows(dGoal, w)

\* C6 (amended): issuing a mutation leaves the local goal as it was; the
\* local goal takes the mutated field when the write has succeeded, and a
\* failed write leaves the local goal unchanged.
C6_LocalFollowsConfirmedWrite ==
  [][/\ DetailIssues => dGoal' = dGoal
     /\ \A w \in dPending :
          /\ (w.kind # "edit" /\ w.alive /\ Landed(w)) =>
               /\ Shows(dGoal', w)
               /\ \A f \in DOMAIN w.goal \ DOMAIN w.local : dGoal'[f] = w.goal[f]
          /\ (w.kind # "edit" /\ Failed(w)) => dGoal' = dGoal]_vars

LastDone == dLog[Len(dLog)]

C6_Witness ==
  /\ dLog # <<>>
  /\ ~LastDone.ok /\ LastDone.w.alive /\ LastDone.w.kind = "status"
  /\ dView = "details" /\ dGoal # NoGoal /\ dPending = {}
  /\ dGoal.status # LastDone.w.local.status

\* The samples a document stores, each with the name of its metric.
Samples(doc) ==
  UNION {{<<doc.metrics[i].name, doc.metrics[i].history[j]>> :
            j \in 1..Len(doc.metrics[i].history)} : i \in 1..Len(doc.metrics)}

\* C7: no operation on the stored goal removes a sample from the history
\* of one of its metrics.
C7_HistoryNeverTruncated ==
  [][Samples(dDoc) \subseteq Samples(dDoc')]_vars

\* C8: a metric update with value v, issued from a view that holds the
\* stored metrics, appends exactly one (date, v) sample at the end of that
\* metric's history, sets its current value to v, keeps the earlier samples
\* in order, and leaves every other metric as it was; the view shows the same.
C8_MetricUpdateAppendsOneSample ==
  [][\A w \in dPending :
       (w.kind = "metric" /\ Landed(w) /\ w.goal.metrics = dDoc.metrics) =>
         /\ Len(dDoc'.metrics) = Len(dDoc.metrics)
         /\ \A i \in 1..Len(dDoc.metrics) :
              LET old == dDoc.metrics[i]
                  new == dDoc'.metrics[i]
              IN  IF old.id = w.arg[1]
                  THEN /\ new.history = old.history \o <<[date |-> w.at, value |-> w.arg[2]]>>
                       /\ new.current = w.arg[2]
                       /\ new.id = old.id /\ new.name = old.name
                  ELSE new = old
         /\ w.alive => dGoal'.metrics = dDoc'.metrics]_vars

C8_Witness ==
  /\ dLog # <<>>
  /\ LastDone.ok /\ LastDone.w.kind = "metric" /\ LastDone.w.arg = <<<<"k", 0, 1>>, 2>>
  /\ dDoc.metrics[1].current = 2
  /\ Len(dDoc.metrics[1].history) = 2
  /\ dDoc.metrics[1].history[1] = [date |-> Now0, value |-> 1]
  /\ dDoc.metrics[1].history[2].value = 2

\* The fields an operation is meant to change.
Changes(kind) ==
  CASE kind = "status" -> {"status"}
    [] kind = "toggle" -> {"milestones"}
    [] kind = "metric" -> {"metrics"}
    [] kind = "reflection" -> {"reflections"}
    [] OTHER -> {"title", "status", "milestones", "metrics"}

\* The landed operation on field f after which no operation on f has landed.
IsLastLandedOn(i, f) ==
  /\ dLog[i].ok /\ f \in Changes(dLog[i].w.kind)
  /\ \A k \in (i + 1)..Len(dLog) : ~(dLog[k].ok /\ f \in Changes(dLog[k].w.kind))

IsLastLanded(i) ==
  dLog[i].ok /\ \A k \in (i + 1)..Len(dLog) : ~dLog[k].ok

\* C9: once a status change and a milestone toggle have both landed, in
\* whichever order, the stored document has the new status and the toggled
\* milestone, and updatedAt, which both wrote, is that of the write that
\* landed last.
C9_StatusAndToggleBothPersist ==
  \A i, j \in 1..Len(dLog) :
    (/\ dLog[i].w.kind = "status" /\ IsLastLandedOn(i, "status")
     /\ dLog[j].w.kind = "toggle" /\ IsLastLandedOn(j, "milestones")) =>
      /\ dDoc.status = dLog[i].w.arg[1]
      /\ \E m \in 1..Len(dDoc.milestones) :
           /\ dDoc.milestones[m].id = dLog[j].w.arg[1]
           /\ dDoc.milestones[m].completed = dLog[j].w.arg[2]
      /\ \A k \in 1..Len(dLog) : IsLastLanded(k) => dDoc.updatedAt = dLog[k].w.at

\* Both were in flight together: the one issued first landed last.
C9_Witness ==
  /\ Len(dLog) = 2 /\ dLog[1].ok /\ dLog[2].ok
  /\ dLog[1].w.kind = "toggle" /\ dLog[1].w.seq = 2
  /\ dLog[2].w.kind = "status" /\ dLog[2].w.seq = 1
  /\ dLog[2].w.arg[1] = "paused"
  /\ dLog[1].w.at > dLog[2].w.at

\* C24: when a save of the goal form lands, every milestone of the saved
\* document is a milestone the document had before, with the same
\* identifier, completion flag and completion date.
C24_EditKeepsMilestoneCompletion ==
  [][\A w \in dPending :
       (Landed(w) /\ w.kind = "edit") =>
         \A i \in 1..Len(dDoc'.milestones) :
           \E j \in 1..Len(dDoc.milestones) :
             /\ dDoc'.milestones[i].id = dDoc.milestones[j].id
             /\ dDoc'.milestones[i].completed = dDoc.milestones[j].completed
             /\ dDoc'.milestones[i].completedDate = dDoc.milestones[j].completedDate]_vars

\* C30: when the write of a submitted goal form fails, the form stays open
\* with the values entered.
C30_FailedSaveKeepsFormOpen ==
  [][\A w \in dPending :
       (Failed(w) /\ w.kind = "edit" /\ dView = "form") =>
         (dView' = "form" /\ dForm' = dForm)]_vars


\* The milestone with identifier id is stored with the completion flag c.
StoredAs(id, c) ==
  \E m \in 1..Len(dDoc.milestones) :
    dDoc.milestones[m].id = id /\ dDoc.milestones[m].completed = c

\* Two toggles of different milestones have landed, the second issued before
\* the first one's write had finished, and no other write of the milestones
\* has landed since the first.
ToggledTogether(i, j) ==
  /\ i < j
  /\ dLog[i].ok /\ dLog[i].w.kind = "toggle"
  /\ dLog[j].ok /\ dLog[j].w.kind = "toggle"
  /\ dLog[i].w.arg[1] # dLog[j].w.arg[1]
  /\ dLog[j].w.done < i
  /\ \A k \in (i + 1)..Len(dLog) :
       k # j => ~(dLog[k].ok /\ "milestones" \in Changes(dLog[k].w.kind))

\* C25: once two toggles of different milestones, issued before the first
\* one's write had finished, have both landed, the stored goal has both.
C25_BothTogglesPersist ==
  \A i, j \in 1..Len(dLog) :
    ToggledTogether(i, j) =>
      /\ StoredAs(dLog[i].w.arg[1], dLog[i].w.arg[2])
      /\ StoredAs(dLog[j].w.arg[1], dLog[j].w.arg[2])


\* C26: when every mutation issued from the detail view has landed and none
\* is outstanding, the goal the view shows equals the stored goal in status,
\* milestones, metrics and reflections.
C26_LocalEqualsStoredWhenQuiet ==
  (/\ dView = "details" /\ dGoal # NoGoal /\ dPending = {}
   /\ \A k \in 1..Len(dLog) :
        dLog[k].ok /\ dLog[k].w.alive /\ dLog[k].w.kind # "edit") =>
    \A f \in {"status", "milestones", "metrics", "reflections"} : dGoal[f] = dDoc[f]


-----------------------------------------------------------------------------
(* Progress percentage: GoalsList, GoalDetails, DomainDetails              *)

MaxMilestones == 3

\* Math.round of the quotient n / d (d > 0, n >= 0): halves go up.
MathRound(n, d) == (2 * n + d) \div (2 * d)

\* goal.milestones.filter(m => m.completed).length
CompletedCount(milestones) ==
  Cardinality({i \in 1..Len(milestones) : milestones[i].completed})

\* A percentage that drops the fraction.
GoalsList_getProgressPercentage_Floor(goal) ==
  IF Len(goal.milestones) > 0
  THEN (CompletedCount(goal.milestones) * 100) \div Len(goal.milestones)
  ELSE 0

GoalsList_getProgressPercentage(goal) ==
  LET totalMilestones == Len(goal.milestones)
      completedMilestones == CompletedCount(goal.milestones)
  IN  IF totalMilestones > 0
      THEN MathRound(completedMilestones * 100, totalMilestones)
      ELSE 0

GoalDetails_getProgressPercentage(goal) ==
  LET totalMilestones == Len(goal.milestones)
      completedMilestones == CompletedCount(goal.milestones)
  IN  IF totalMilestones > 0
      THEN MathRound(completedMilestones * 100, totalMilestones)
      ELSE 0

DomainDetails_getProgressPercentage(goal) ==
  LET totalMilestones == Len(goal.milestones)
      completedMilestones == CompletedCount(goal.milestones)
  IN  IF totalMilestones > 0
      THEN MathRound(completedMilestones * 100, totalMilestones)
      ELSE 0

Views == {"list", "details", "domain"}

Blank == [t |-> "null"]

PInit == pShown = [v \in Views |-> Blank]

\* The goals a view may be given: up to MaxMilestones milestones, each
\* completed or not.
RenderedGoals ==
  {[milestones |-> [i \in 1..n |-> [completed |-> i \in done]]] :
     n \in 0..MaxMilestones, done \in SUBSET (1..MaxMilestones)}

\* A view renders the progress bar of a goal it was given.
PRender(view, goal) ==
  /\ pShown' = [pShown EXCEPT ![view] =
       [goal |-> goal,
        percent |-> CASE view = "list" -> GoalsList_getProgressPercentage(goal)
                      [] view = "details" -> GoalDetails_getProgressPercentage(goal)
                      [] OTHER -> DomainDetails_getProgressPercentage(goal)]]

PNext == \E view \in Views : \E goal \in RenderedGoals : PRender(view, goal)

-----------------------------------------------------------------------------
(* NotificationBell                                                        *)
(* Times are day numbers, as everywhere in this module: 7 * 24 * 60 * 60   *)
(* * 1000 ms is Week, and a stored date reads back as the day it holds.    *)

Week == 7
MaxWrites == 2

Uid == "u1"
GoalIds == <<"g1", "g2", "g3">>

\* The collection when the bell first mounts: an active goal of the user with
\* an overdue milestone, one due in eight days and a reflection exactly a week
\* old; a paused goal of the user; an active goal of somebody else.
NInitialGoals ==
  [g \in {"g1", "g2", "g3"} |->
     CASE g = "g1" ->
            [id |-> "g1", userId |-> Uid, status |-> "active",
             targetDate |-> JDate(Now0 + Week + 1),
             milestones |-> <<[id |-> "m1", targetDate |-> Now0 - Week - 3, completed |-> FALSE],
                              [id |-> "m2", targetDate |-> Now0 + Week + 1, completed |-> FALSE]>>,
             reflections |-> <<[date |-> Now0 - Week]>>]
       [] g = "g2" ->
            [id |-> "g2", userId |-> Uid, status |-> "paused",
             targetDate |-> Undef,
             milestones |-> <<[id |-> "m3", targetDate |-> Now0 + Week, completed |-> FALSE]>>,
             reflections |-> <<>>]
       [] OTHER ->
            [id |-> "g3", userId |-> "u2", status |-> "active",
             targetDate |-> JDate(Now0),
             milestones |-> <<[id |-> "m4", targetDate |-> Now0 + 1, completed |-> FALSE]>>,
             reflections |-> <<>>]]

NInit ==
  /\ nGoals = NInitialGoals
  /\ nWrites = 0
  /\ nMounted = FALSE
  /\ nNotifications = <<>>
  /\ nShow = FALSE
  /\ nPolls = {}
  /\ nLast = Blank

\* ---- writes other components land in the collection

OwnGoals == {g \in DOMAIN nGoals : nGoals[g].userId = Uid}

\* updateGoalStatus
NStoreStatus(g, status) ==
  /\ nWrites < MaxWrites
  /\ nGoals[g].status # status
  /\ nGoals' = [nGoals EXCEPT ![g].status = status]
  /\ nWrites' = nWrites + 1
  /\ UNCHANGED <<nMounted, nNotifications, nShow, nPolls, nLast>>

\* toggleMilestone
NStoreToggle(g, i) ==
  /\ nWrites < MaxWrites
  /\ nGoals' = [nGoals EXCEPT ![g].milestones[i].completed = ~@]
  /\ nWrites' = nWrites + 1
  /\ UNCHANGED <<nMounted, nNotifications, nShow, nPolls, nLast>>

\* addReflection: the only writer of reflections; it appends one dated
\* new Date().
NStoreReflect(g) ==
  /\ nWrites < MaxWrites
  /\ nGoals' = [nGoals EXCEPT ![g].reflections = Append(@, [date |-> now])]
  /\ nWrites' = nWrites + 1
  /\ UNCHANGED <<nMounted, nNotifications, nShow, nPolls, nLast>>

\* ---- checkNotifications

\* where('userId', '==', user.uid), where('status', '==', 'active'): the
\* documents in id order.
RECURSIVE QueryFrom(_, _)
QueryFrom(goals, i) ==
  IF i > Len(GoalIds) THEN <<>>
  ELSE LET goal == goals[GoalIds[i]]
       IN  (IF goal.userId = Uid /\ goal.status = "active" THEN <<goal>> ELSE <<>>)
             \o QueryFrom(goals, i + 1)

GoalsQuery(goals) == QueryFrom(goals, 1)

RECURSIVE Flatten(_)
Flatten(seqs) == IF seqs = <<>> THEN <<>> ELSE Head(seqs) \o Flatten(Tail(seqs))

RECURSIVE Filter(_, _)
Filter(seq, keep) ==
  IF seq = <<>> THEN <<>>
  ELSE (IF keep[1] THEN <<Head(seq)>> ELSE <<>>)
         \o Filter(Tail(seq), Tail(keep))

MilestoneNotices(goal, weekFromNow) ==
  LET due == Filter(goal.milestones,
                    [i \in 1..Len(goal.milestones) |->
                       /\ ~goal.milestones[i].completed
                       /\ goal.milestones[i].targetDate <= weekFromNow])
  IN  [i \in 1..Len(due) |->
         [id |-> <<"milestone", due[i].id>>, type |-> "milestone",
          title |-> "Upcoming Milestone", date |-> due[i].targetDate,
          read |-> FALSE]]

\* A review is due a week after the last review as well.
ReviewDue_Inclusive(goal, nowTime) ==
  LET n == Len(goal.reflections)
  IN  n = 0 \/ goal.reflections[n].date + Week <= nowTime

ReviewDue(goal, nowTime) ==
  LET n == Len(goal.reflections)
      lastReviewTime == IF n > 0 THEN goal.reflections[n].date ELSE 0
  IN  n = 0 \/ lastReviewTime + Week < nowTime

ReviewNotices(goal, nowTime) ==
  IF ReviewDue(goal, nowTime)
  THEN <<[id |-> <<"review", goal.id>>, type |-> "review",
          title |-> "Review Needed", date |-> nowTime, read |-> FALSE]>>
  ELSE <<>>

DeadlineNotices(goal, weekFromNow) ==
  IF Truthy(goal.targetDate) /\ goal.targetDate.day <= weekFromNow
  THEN <<[id |-> <<"goal", goal.id>>, type |-> "goal",
          title |-> "Goal Deadline Approaching", date |-> goal.targetDate.day,
          read |-> FALSE]>>
  ELSE <<>>

\* Array.prototype.sort with (a, b) => a.date - b.date.
RECURSIVE SortByDateDesc_Ascending(_)
SortByDateDesc_Ascending(seq) ==
  IF seq = <<>> THEN <<>>
  ELSE LET rest == SortByDateDesc_Ascending(Tail(seq))
           k == Cardinality({i \in 1..Len(rest) : rest[i].date < Head(seq).date})
       IN  SubSeq(rest, 1, k) \o <<Head(seq)>> \o SubSeq(rest, k + 1, Len(rest))

\* Array.prototype.sort with (a, b) => b.date - a.date: latest first, equal
\* dates keep their order.
RECURSIVE SortByDateDesc(_)
SortByDateDesc(seq) ==
  IF seq = <<>> THEN <<>>
  ELSE LET rest == SortByDateDesc(Tail(seq))
           k == Cardinality({i \in 1..Len(rest) : rest[i].date > Head(seq).date})
       IN  SubSeq(rest, 1, k) \o <<Head(seq)>> \o SubSeq(rest, k + 1, Len(rest))

\* The list checkNotifications hands to setNotifications.
NewNotifications(goals, nowTime) ==
  LET weekFromNow == nowTime + Week
      found == GoalsQuery(goals)
  IN  SortByDateDesc(
        Flatten([i \in 1..Len(found) |-> MilestoneNotices(found[i], weekFromNow)])
          \o Flatten([i \in 1..Len(found) |-> ReviewNotices(found[i], nowTime)])
          \o Flatten([i \in 1..Len(found) |-> DeadlineNotices(found[i], weekFromNow)]))

\* checkNotifications up to its await: now is read, the query is sent.
NStartPoll == nPolls' = nPolls \cup {[now |-> now, alive |-> TRUE]}

\* The effect on mount: fresh state, a first check at once, the interval set.
NMount ==
  /\ ~nMounted
  /\ nMounted' = TRUE
  /\ nNotifications' = <<>>
  /\ nShow' = FALSE
  /\ nLast' = Blank
  /\ NStartPoll
  /\ UNCHANGED <<nGoals, nWrites>>

\* setInterval(checkNotifications, 60000) fires.
NInterval ==
  /\ nMounted
  /\ NStartPoll
  /\ UNCHANGED <<nGoals, nWrites, nMounted, nNotifications, nShow, nLast>>

\* The effect's cleanup on unmount: the interval is cleared; what runs are
\* still waiting will set the state of a component that is gone.
NUnmount ==
  /\ nMounted
  /\ nMounted' = FALSE
  /\ nPolls' = {[p EXCEPT !.alive = FALSE] : p \in nPolls}
  /\ nNotifications' = <<>>
  /\ nShow' = FALSE
  /\ nLast' = Blank
  /\ UNCHANGED <<nGoals, nWrites>>

IdsOf(list) == {list[i].id : i \in 1..Len(list)}

\* getDocs resolves: the rest of checkNotifications.
NPollDone(p) ==
  /\ p \in nPolls
  /\ nPolls' = nPolls \ {p}
  /\ IF p.alive
     THEN /\ nNotifications' = NewNotifications(nGoals, p.now)
          /\ nLast' = [now |-> p.now, ok |-> TRUE, before |-> IdsOf(nNotifications)]
     ELSE UNCHANGED <<nNotifications, nLast>>
  /\ UNCHANGED <<nGoals, nWrites, nMounted, nShow>>

\* getDocs rejects: checkNotifications ends there.
NPollFails(p) ==
  /\ p \in nPolls
  /\ nPolls' = nPolls \ {p}
  /\ IF p.alive
     THEN nLast' = [now |-> p.now, ok |-> FALSE, before |-> IdsOf(nNotifications)]
     ELSE UNCHANGED nLast
  /\ UNCHANGED <<nGoals, nWrites, nMounted, nNotifications, nShow>>

\* The bell button.
NToggleBell ==
  /\ nMounted
  /\ nShow' = ~nShow
  /\ UNCHANGED <<nGoals, nWrites, nMounted, nNotifications, nPolls, nLast>>

NNext ==
  \/ \E g \in OwnGoals : \E status \in Statuses : NStoreStatus(g, status)
  \/ \E g \in OwnGoals : \E i \in 1..Len(nGoals[g].milestones) : NStoreToggle(g, i)
  \/ \E g \in OwnGoals : NStoreReflect(g)
  \/ NMount
  \/ NInterval
  \/ NUnmount
  \/ \E p \in nPolls : NPollDone(p)
  \/ \E p \in nPolls : NPollFails(p)
  \/ NToggleBell


-----------------------------------------------------------------------------
(* NotificationBell: properties                                            *)

\* The step on which the run p of checkNotifications sets the list.
PollLands(p) ==
  /\ p \in nPolls /\ p.alive /\ p \notin nPolls'
  /\ nLast' # Blank /\ nLast'.ok /\ nLast'.now = p.now

\* The goals of the user that are active in the collection.
ActiveOwn == {g \in DOMAIN nGoals : nGoals[g].userId = Uid /\ nGoals[g].status = "active"}

MilestonesOf(g) == {nGoals[g].milestones[i] : i \in 1..Len(nGoals[g].milestones)}

Occurrences(list, id) == Cardinality({i \in 1..Len(list) : list[i].id = id})

OfType(list, type) == {list[i].id : i \in {j \in 1..Len(list) : list[j].type = type}}

\* C18: a poll emits a milestone notice for exactly the incomplete milestones
\* of the user's active goals that are due within 7 days of the poll time,
\* one notice each, and for no other milestone.
C18_MilestoneNoticesDueWithinWeek ==
  [][\A p \in nPolls :
       PollLands(p) =>
         LET due == {<<"milestone", m.id>> :
                       m \in {x \in UNION {MilestonesOf(g) : g \in ActiveOwn} :
                                /\ ~x.completed
                                /\ x.targetDate >= p.now
                                /\ x.targetDate <= p.now + Week}}
         IN  /\ OfType(nNotifications', "milestone") = due
             /\ \A id \in due : Occurrences(nNotifications', id) = 1]_vars

\* The date of the most recent reflection of a goal that has one.
MostRecent(goal) ==
  CHOOSE d \in {goal.reflections[i].date : i \in 1..Len(goal.reflections)} :
    \A i \in 1..Len(goal.reflections) : goal.reflections[i].date <= d

\* C19: a poll emits exactly one review notice for every active goal of the
\* user without a reflection or whose most recent reflection is dated more
\* than 7 days before the poll time, and none for any other goal.
C19_ReviewNoticeWhenStale ==
  [][\A p \in nPolls :
       PollLands(p) =>
         LET stale == {g \in ActiveOwn :
                         \/ nGoals[g].reflections = <<>>
                         \/ p.now - MostRecent(nGoals[g]) > Week}
         IN  /\ OfType(nNotifications', "review") = {<<"review", g>> : g \in stale}
             /\ \A g \in stale : Occurrences(nNotifications', <<"review", g>>) = 1]_vars

\* A poll has left a review notice for one goal and none for another active
\* goal, reviewed within the week.
C19_Witness ==
  /\ nLast # Blank /\ nLast.ok
  /\ \E g \in ActiveOwn :
       /\ nGoals[g].reflections # <<>>
       /\ nLast.now - MostRecent(nGoals[g]) = Week + 1
       /\ Occurrences(nNotifications, <<"review", g>>) = 1
  /\ \E g \in ActiveOwn :
       /\ nGoals[g].reflections # <<>>
       /\ nLast.now - MostRecent(nGoals[g]) <= Week
       /\ Occurrences(nNotifications, <<"review", g>>) = 0

\* What a poll at time t finds in the collection, as a set of notices.
Found(t) ==
  {[id |-> <<"milestone", m.id>>, type |-> "milestone", title |-> "Upcoming Milestone",
    date |-> m.targetDate, read |-> FALSE] :
     m \in {x \in UNION {MilestonesOf(g) : g \in ActiveOwn} :
              ~x.completed /\ x.targetDate <= t + Week}}
  \cup
  {[id |-> <<"review", g>>, type |-> "review", title |-> "Review Needed",
    date |-> t, read |-> FALSE] :
     g \in {x \in ActiveOwn : \A i \in 1..Len(nGoals[x].reflections) :
                                nGoals[x].reflections[i].date + Week < t}}
  \cup
  {[id |-> <<"goal", g>>, type |-> "goal", title |-> "Goal Deadline Approaching",
    date |-> nGoals[g].targetDate.day, read |-> FALSE] :
     g \in {x \in ActiveOwn : /\ nGoals[x].targetDate # Undef
                              /\ nGoals[x].targetDate.day <= t + Week}}

\* C20: the list a poll sets holds exactly the notices found in the goal set
\* it read at its poll time, each once and unread, latest date first, whatever
\* the list held before.
C20_ListRecomputedFromScratch ==
  [][\A p \in nPolls :
       PollLands(p) =>
         /\ {nNotifications'[i] : i \in 1..Len(nNotifications')} = Found(p.now)
         /\ Len(nNotifications') = Cardinality(Found(p.now))
         /\ \A i \in 1..Len(nNotifications') : ~nNotifications'[i].read
         /\ \A i, j \in 1..Len(nNotifications') :
              i < j => nNotifications'[i].date >= nNotifications'[j].date]_vars

\* A poll has replaced a list: a notice of the old list is gone, and the new
\* one holds notices of different dates.
C20_Witness ==
  /\ nLast # Blank /\ nLast.ok
  /\ nLast.before \ IdsOf(nNotifications) # {}
  /\ IdsOf(nNotifications) \ nLast.before # {}
  /\ \E i, j \in 1..Len(nNotifications) : nNotifications[i].date > nNotifications[j].date


-----------------------------------------------------------------------------
(* GoalsList: creating a goal                                              *)

MaxFormItems == 1
MaxSubmits == 2

Modals == {"form", "guided", "freeform"}

\* GoalCreationForm's initial state without initialData.
NewForm == [title |-> "", milestones |-> <<>>, metrics |-> <<>>]

CInit ==
  /\ cShown = "none"
  /\ cForm = NoForm
  /\ cPending = {}
  /\ cEmitted = <<>>

\* One of the three buttons of the list: setShowCreateForm(true),
\* setShowAICreation(true), setShowFreeformChat(true).  The modal covers the
\* list; the component starts in its initial state.
CShow(modal) ==
  /\ cShown = "none"
  /\ cShown' = modal
  /\ cForm' = IF modal = "form" THEN NewForm ELSE cForm
  /\ UNCHANGED <<cPending, cEmitted>>

CFormOpen == cShown = "form" /\ cForm # NoForm

\* The title input.
CSetTitle(title) ==
  /\ CFormOpen /\ cForm.title # title
  /\ cForm' = [cForm EXCEPT !.title = title]
  /\ UNCHANGED <<cShown, cPending, cEmitted>>

addMilestone ==
  /\ CFormOpen /\ Len(cForm.milestones) < MaxFormItems
  /\ cForm' = [cForm EXCEPT !.milestones = Append(@, [title |-> ""])]
  /\ UNCHANGED <<cShown, cPending, cEmitted>>

addMetric ==
  /\ CFormOpen /\ Len(cForm.metrics) < MaxFormItems
  /\ cForm' = [cForm EXCEPT !.metrics = Append(@, [name |-> "", current |-> 0])]
  /\ UNCHANGED <<cShown, cPending, cEmitted>>

CSubmitted == Len(cEmitted)

\* The record handleSubmit hands to addDoc in create mode.
CreatedDoc(form, seq, t) ==
  Spread(FormGoalData(form, seq),
         [userId |-> "uid", createdAt |-> t, updatedAt |-> t, reflections |-> <<>>])

\* handleSubmit without initialData, up to its await of addDoc.  The title
\* input is required.
CSubmit ==
  /\ CFormOpen /\ cForm.title # ""
  /\ CSubmitted < MaxSubmits
  /\ cEmitted' = Append(cEmitted, CreatedDoc(cForm, CSubmitted + 1, now))
  /\ cPending' = cPending \cup {CSubmitted + 1}
  /\ UNCHANGED <<cShown, cForm>>

\* addDoc resolves: onClose().
CAddDocLands(w) ==
  /\ w \in cPending
  /\ cPending' = cPending \ {w}
  /\ cForm' = NoForm
  /\ UNCHANGED <<cShown, cEmitted>>

\* addDoc rejects: the catch logs, the form stays.
CAddDocFails(w) ==
  /\ w \in cPending
  /\ cPending' = cPending \ {w}
  /\ UNCHANGED <<cShown, cForm, cEmitted>>

\* The form's X and Cancel buttons: onClose().
CFormClose ==
  /\ CFormOpen
  /\ cForm' = NoForm
  /\ UNCHANGED <<cShown, cPending, cEmitted>>

CNext ==
  \/ \E title \in FormTitles : CSetTitle(title)
  \/ addMilestone
  \/ addMetric
  \/ CSubmit
  \/ \E w \in cPending : CAddDocLands(w)
  \/ \E w \in cPending : CAddDocFails(w)
  \/ CFormClose


-----------------------------------------------------------------------------
(* Creating a goal: properties                                             *)

Elements(seq) == {seq[i] : i \in 1..Len(seq)}

\* The identifiers of the milestones, metrics and routines of a freeform
\* goal record, each with the collection it is in.
IdsIn(goal) ==
  UNION {{<<f, m.id>> : m \in Elements(Get(goal, f).a)} :
           f \in {x \in MappedFields : Get(goal, x).t = "array"}}

ItemCount(goal) ==
  Len(goal.milestones.a) + Len(goal.metrics.a) + Len(goal.routines.a)

\* C22: every record handed to addDoc by the manual form, the guided flow or
\* the freeform save has status active, only incomplete milestones, only
\* metrics with an empty history and no reflections; the freeform save puts
\* 'personal' for a missing domain and gives every milestone, metric and
\* routine an identifier that is new and its own.
C22_CreatedGoalsStartFresh ==
  /\ \A e \in Elements(cEmitted) :
       /\ e.status = "active"
       /\ \A m \in Elements(e.milestones) : ~m.completed
       /\ \A m \in Elements(e.metrics) : m.history = <<>>
       /\ e.reflections = <<>>
  /\ \A e \in Elements(gEmitted) :
       /\ e.goal.status = JStr(sActive)
       /\ \A m \in Elements(e.goal.milestones) : ~m.completed
       /\ \A m \in Elements(e.goal.metrics) : m.history = <<>>
       /\ e.goal.reflections = <<>>
  /\ \A e \in Elements(ffEmitted) :
       /\ e.goal.status = JStr(sActive)
       /\ \A m \in Elements(e.goal.milestones.a) : ~m.completed
       /\ \A m \in Elements(e.goal.metrics.a) : m.history = <<>>
       /\ e.goal.reflections = JArr(<<>>)
       /\ Truthy(e.goal.domain)
       /\ Cardinality(IdsIn(e.goal)) = ItemCount(e.goal)
  /\ (ffLast.kind = "saved") =>
       LET e == ffEmitted[Len(ffEmitted)]
       IN  /\ IdsIn(e.goal) \cap IdsIn(ffLast.goalData) = {}
           /\ e.goal.domain = IF Truthy(Get(ffLast.goalData, "domain"))
                              THEN ffLast.goalData.domain ELSE JStr(sPersonal)
  /\ (ffOpen /\ ~Truthy(Get(ffGoalData, "domain"))
        /\ \A f \in MappedFields : ~MapThrows(Get(ffGoalData, f))) =>
       SavedGoal(ffGoalData).domain = JStr(sPersonal)

\* The freeform save has emitted a goal with a milestone, a metric and a
\* routine in it.
C22_Witness ==
  /\ cShown = "freeform"
  /\ ffLast.kind = "saved"
  /\ Len(ffEmitted) = 1
  /\ ffEmitted[1].goal.milestones.a # <<>>
  /\ ffEmitted[1].goal.metrics.a # <<>>
  /\ ffEmitted[1].goal.routines.a # <<>>


-----------------------------------------------------------------------------
(* Specifications                                                          *)

Init == FFInit /\ GInit /\ DInit /\ PInit /\ NInit /\ CInit /\ now = Now0

SpecFreeform ==
  Init /\ [][FFNext /\ UNCHANGED <<gVars, dVars, pVars, nVars, cVars, now>>]_vars

GuidedNext ==
  \/ GNext /\ UNCHANGED <<ffVars, dVars, pVars, nVars, cVars, now>>
  \/ Tick /\ UNCHANGED <<ffVars, gVars, dVars, pVars, nVars, cVars>>

SpecGuided == Init /\ [][GuidedNext]_vars

DetailNext ==
  \/ DNext /\ UNCHANGED <<ffVars, gVars, pVars, nVars, cVars, now>>
  \/ Tick /\ UNCHANGED <<ffVars, gVars, dVars, pVars, nVars, cVars>>

SpecDetail == Init /\ [][DetailNext]_vars

SpecProgress ==
  Init /\ [][PNext /\ UNCHANGED <<ffVars, gVars, dVars, nVars, cVars, now>>]_vars

NotifyNext ==
  \/ NNext /\ UNCHANGED <<ffVars, gVars, dVars, pVars, cVars, now>>
  \/ Tick /\ UNCHANGED <<ffVars, gVars, dVars, pVars, nVars, cVars>>

SpecNotify == Init /\ [][NotifyNext]_vars

\* GoalsList with its three ways to create a goal: the list shows one modal,
\* and the component shown runs as in its own specification.
CreateNext ==
  \/ \E modal \in Modals : CShow(modal) /\ UNCHANGED <<ffVars, gVars, dVars, pVars, nVars, now>>
  \/ /\ cShown = "form"
     /\ CNext
     /\ UNCHANGED <<ffVars, gVars, dVars, pVars, nVars, now>>
  \/ /\ cShown = "guided"
     /\ GuidedNext
  \/ /\ cShown = "freeform"
     /\ FFNext
     /\ UNCHANGED <<gVars, dVars, pVars, nVars, cVars, now>>

SpecCreate == Init /\ [][CreateNext]_vars

====
